---- MODULE Spec2Model ----
(***************************************************************************)
(* Model of the yabu backup engine (yabu_cmd/model/backup_manager.py):     *)
(* creation of archives with content-hash dedup and retention rotation,    *)
(* discovery of the archives of a destination, and restoration; and of the *)
(* presets kept by yabu_cmd/model/preset_manager.py.                       *)
(*                                                                         *)
(* A string is a sequence of tokens, a path is a record                    *)
(* [parent, name], the clock counts ticks of 1/TicksPerSec second.         *)
(***************************************************************************)
EXTENDS Integers, Sequences, FiniteSets, TLC

VARIABLES
    now,    \* the wall clock read by datetime.now(), in ticks
    fs,     \* the directories that hold the targets
    dest,   \* the destination directories and the files in them
    gen,    \* the running create_backups generator
    log,    \* the create_backups calls that ended, oldest first
    last,   \* the last operation, its arguments and its result
    edits,  \* how many times a target or a destination was changed from outside creation
    mgr     \* the PresetManager, its config file and the Preset its caller builds

vars == <<now, fs, dest, gen, log, last, edits, mgr>>

----------------------------------------------------------------------------
(* Bounds of the model *)

\* Spec: creation
MaxClock == 5
MaxCalls == 2
MaxEdits == 1

\* SpecDiscover: discovery
DiscoverMaxClock == 4
DiscoverMaxCalls == 2
DiscoverMaxEdits == 1

\* SpecRestore: restoration
RestoreMaxClock == 2
RestoreMaxCalls == 1
RestoreMaxEdits == 2

\* SpecNames: archive names
NamesMaxClock == 2
NamesMaxCalls == 1

\* SpecDelete: deletion
DeleteMaxClock == 4
DeleteMaxCalls == 2
DeleteMaxEdits == 2

\* SpecWrite: creation that fails or is interrupted
WriteMaxClock == 3
WriteMaxCalls == 2
WriteMaxEdits == 1

\* SpecHash: content hashes of directories
HashMaxClock == 4
HashMaxCalls == 2
HashMaxEdits == 1

\* SpecLoad: the two loaders of a backup file
LoadMaxClock == 2
LoadMaxCalls == 1
LoadMaxEdits == 2

\* SpecErrors: the errors that creation yields
ErrorsMaxClock == 4
ErrorsMaxCalls == 2
ErrorsMaxEdits == 1

\* SpecRetain: retention by preset
RetainMaxClock == 4
RetainMaxCalls == 2
RetainMaxEdits == 1

\* SpecCount: the retention count of a Destination; the largest count assigned
CountMaxValue == 2

\* SpecManage: presets built and kept; the longest list of a preset
ManageMaxItems == 1

\* SpecDedup: dedup over contents that come back
DedupMaxClock == 6
DedupMaxCalls == 3
DedupMaxEdits == 2

\* SpecSettings: a destination whose settings change between calls
SettingsMaxClock == 4
SettingsMaxCalls == 2
SettingsMaxEdits == 1

\* SpecStray: restoration beside a file of the reserved name, and of backups
\* whose archive has another suffix
StrayMaxClock == 2
StrayMaxCalls == 1
StrayMaxEdits == 2

\* SpecHandler: CommandHandler.restore_backup by preset name and by path
HandlerMaxClock == 2
HandlerMaxCalls == 1
HandlerMaxEdits == 2

----------------------------------------------------------------------------
(* Time: rendering and parsing of timestamps *)

TicksPerSec == 3

Digits == <<"0", "1", "2", "3", "4", "5", "6", "7", "8", "9">>

NumStr(n) == Digits[n + 1]

IsNum(tok) == \E i \in 1..Len(Digits) : Digits[i] = tok

NumVal(tok) == (CHOOSE i \in 1..Len(Digits) : Digits[i] = tok) - 1

\* The date formats of the model: FmtSec has second precision (the default
\* "%Y_%m_%d__%H%M%S"), FmtMicro ends with the sub-second field ("...%S%f"),
\* FmtDash has a literal "-" between two fields ("%M-%S").
FmtSec == "%S"
FmtMicro == "%S%f"
FmtDash == "%M-%S"
DateFormats == {FmtSec, FmtMicro, FmtDash}

\* datetime.strftime
Strftime(t, fmt) ==
    IF fmt = FmtSec
    THEN <<NumStr(t \div TicksPerSec)>>
    ELSE IF fmt = FmtMicro
    THEN <<NumStr(t \div TicksPerSec), NumStr(t % TicksPerSec)>>
    ELSE <<NumStr((t \div TicksPerSec) \div 60), "-", NumStr((t \div TicksPerSec) % 60)>>

\* datetime.strptime: ok is FALSE where Python raises ValueError
Strptime(s, fmt) ==
    IF fmt = FmtSec
    THEN IF Len(s) = 1 /\ IsNum(s[1])
         THEN [ok |-> TRUE, date |-> NumVal(s[1]) * TicksPerSec]
         ELSE [ok |-> FALSE, date |-> 0]
    ELSE IF fmt = FmtMicro
    THEN IF Len(s) = 2 /\ IsNum(s[1]) /\ IsNum(s[2]) /\ NumVal(s[2]) < TicksPerSec
         THEN [ok |-> TRUE, date |-> NumVal(s[1]) * TicksPerSec + NumVal(s[2])]
         ELSE [ok |-> FALSE, date |-> 0]
    ELSE IF Len(s) = 3 /\ IsNum(s[1]) /\ s[2] = "-" /\ IsNum(s[3])
         THEN [ok |-> TRUE,
               date |-> (NumVal(s[1]) * 60 + NumVal(s[3])) * TicksPerSec]
         ELSE [ok |-> FALSE, date |-> 0]

----------------------------------------------------------------------------
(* Strings and paths *)

RECURSIVE Split(_, _)
\* str.split(sep) for a one-character separator
Split(s, sep) ==
    IF \A i \in 1..Len(s) : s[i] # sep
    THEN <<s>>
    ELSE LET i == CHOOSE k \in 1..Len(s) :
                      s[k] = sep /\ \A j \in 1..(k - 1) : s[j] # sep
         IN <<SubSeq(s, 1, i - 1)>> \o Split(SubSeq(s, i + 1, Len(s)), sep)

\* where pathlib splits a name into stem and suffix: at its last dot, unless
\* that dot starts or ends the name (0: the name has no suffix)
SuffixAt(name) ==
    LET dots == {i \in 2..(Len(name) - 1) : name[i] = "."}
    IN IF dots = {} THEN 0 ELSE CHOOSE i \in dots : \A j \in dots : j <= i

\* PurePath.stem and PurePath.suffix
Stem(name) == IF SuffixAt(name) = 0 THEN name ELSE SubSeq(name, 1, SuffixAt(name) - 1)

Suffix(name) == IF SuffixAt(name) = 0 THEN <<>> ELSE SubSeq(name, SuffixAt(name), Len(name))

NameT == <<"a", ".", "t">>
NameM == <<"a", ".", "m">>
MetaName == <<".yabu.meta">>

\* a file whose stem holds the default name separator and a number after it,
\* as the name of an archive of this program does
NameD == <<"a", "-", "1", ".", "t">>

Parents == {"x", "y"}
ChildNames == {NameT, NameM, NameD, MetaName}

PathT == [parent |-> "x", name |-> NameT]
PathM == [parent |-> "x", name |-> NameM]
PathY == [parent |-> "y", name |-> NameT]
PathD == [parent |-> "x", name |-> NameD]
TargetPaths == {PathT, PathM, PathY}

----------------------------------------------------------------------------
(* The file system: target trees *)

Data == {0, 1}

NoNode == [kind |-> "none", data |-> 0, mtime |-> 0, entries |-> <<>>]

FileNode(d, m) == [kind |-> "file", data |-> d, mtime |-> m, entries |-> <<>>]

\* a directory lists its entries in the order the file system enumerates them
FolderNode(es) == [kind |-> "folder", data |-> 0, mtime |-> 0, entries |-> es]

Entry(n, d, m) == [name |-> <<n>>, kind |-> "file", data |-> d, mtime |-> m]

\* a sub-directory of a target directory
SubDir(n, m) == [name |-> <<n>>, kind |-> "folder", data |-> 0, mtime |-> m]

\* a path that exists and is neither a regular file nor a directory (a FIFO)
SpecialNode == [kind |-> "special", data |-> 0, mtime |-> 0, entries |-> <<>>]

\* the directory trees the environment may put at a target at time m
FolderChoices(m) ==
    { <<>>,
      <<Entry("f", 0, m)>>,
      <<Entry("f", 1, m)>>,
      <<Entry("f", 0, m), Entry("g", 0, m)>>,
      <<Entry("g", 0, m), Entry("f", 0, m)>> }

NodeChoices(m) ==
    {NoNode} \cup {FileNode(d, m) : d \in Data}
             \cup {FolderNode(es) : es \in FolderChoices(m)}

NodeAt(F, path) ==
    IF F[path.parent].exists THEN F[path.parent].children[path.name] ELSE NoNode

\* Path.exists, Path.is_dir, Path.is_file
Exists(F, path) == NodeAt(F, path).kind # "none"
IsDir(F, path) == NodeAt(F, path).kind = "folder"
IsFile(F, path) == NodeAt(F, path).kind = "file"

PutNode(F, path, node) ==
    [F EXCEPT ![path.parent].children[path.name] = node]

get_content_type(F, target) ==
    IF IsDir(F, target) THEN "folder"
    ELSE IF IsFile(F, target) THEN "file"
    ELSE "ValueError"

----------------------------------------------------------------------------
(* Destinations, archives and Backup values *)

DestPaths == {"d1", "d2"}

VALID_FILE_FORMATS == {"zip"}

Dest1 == [path |-> "d1", date_format |-> FmtSec, name_separator |-> "-",
          max_backup_count |-> 2, file_format |-> "zip"]

Dest2 == [path |-> "d2", date_format |-> FmtMicro, name_separator |-> "-",
          max_backup_count |-> 1, file_format |-> "zip"]

NoPath == [parent |-> "", name |-> <<>>]

NoDestination == [path |-> "", date_format |-> "", name_separator |-> "",
                  max_backup_count |-> 0, file_format |-> ""]

Made(raised, destination) == [raised |-> raised, destination |-> destination]

\* Destination.__init__: the setters run in the order path, date_format,
\* name_separator, max_backup_count, file_format, on arguments of the right types
Destination(D, path, date_format, name_separator, max_backup_count, file_format) ==
    IF ~D[path].exists THEN Made("FileNotFoundError", NoDestination)
    ELSE IF ~(max_backup_count > 0) THEN Made("ValueError", NoDestination)
    ELSE IF file_format \notin VALID_FILE_FORMATS THEN Made("ValueError", NoDestination)
    ELSE Made("none", [path |-> path, date_format |-> date_format,
                       name_separator |-> name_separator,
                       max_backup_count |-> max_backup_count,
                       file_format |-> file_format])

\* the setters of Destination.name_separator and Destination.date_format
SetNameSeparator(destination, new_separator) ==
    [destination EXCEPT !.name_separator = new_separator]

SetDateFormat(destination, new_date_format) ==
    [destination EXCEPT !.date_format = new_date_format]

Separators == {"-", "_"}

\* a Python value handed to a setter or to a method of Preset: its type, and
\* the number, path or Destination it is
NoValue == [type |-> "none", num |-> 0, path |-> NoPath, destination |-> NoDestination]

IntValue(n) == [NoValue EXCEPT !.type = "int", !.num = n]
BoolValue(n) == [NoValue EXCEPT !.type = "bool", !.num = n]
FloatValue(n) == [NoValue EXCEPT !.type = "float", !.num = n]
StrValue == [NoValue EXCEPT !.type = "str"]
PathValue(p) == [NoValue EXCEPT !.type = "Path", !.path = p]
DestinationValue(d) == [NoValue EXCEPT !.type = "Destination", !.destination = d]

\* isinstance(v, int): bool is a subclass of int
IsInt(v) == v.type \in {"int", "bool"}

\* the setter of Destination.max_backup_count with `>= 0` for `> 0`
set_max_backup_countFromZero(destination, v) ==
    IF ~IsInt(v) THEN Made("TypeError", destination)
    ELSE IF ~(v.num >= 0) THEN Made("ValueError", destination)
    ELSE Made("none", [destination EXCEPT !.max_backup_count = v.num])

\* the setter of Destination.max_backup_count
set_max_backup_count(destination, v) ==
    IF ~IsInt(v) THEN Made("TypeError", destination)
    ELSE IF ~(v.num > 0) THEN Made("ValueError", destination)
    ELSE Made("none", [destination EXCEPT !.max_backup_count = v.num])

\* hashlib.md5(...).hexdigest(): a digest that tells any two inputs apart
md5(bytes) == [digest |-> bytes]

ZipSuffix == <<".", "zip">>

\* a *.zip file without the .yabu.meta entry
ForeignFile ==
    [container |-> TRUE, meta |-> FALSE, target |-> NoPath, name_separator |-> "", date_format |-> "",
     content_hash |-> md5(<<>>), content_type |-> "", entries |-> <<>>]

ForeignName == <<"z">> \o ZipSuffix

\* a file that ZipFile cannot open
CorruptFile == [ForeignFile EXCEPT !.container = FALSE]

TarName == <<"z", ".", "tar">>

NoBackup ==
    [name |-> <<>>, path |-> NoPath, date_format |-> "", name_separator |-> "",
     target |-> NoPath, date |-> 0, content_hash |-> md5(<<>>), content_type |-> ""]

Remove(f, k) == [n \in (DOMAIN f) \ {k} |-> f[n]]

\* get_backup_from_file reading the file name with the default separator and
\* date format in place of those of the archive's metadata
get_backup_from_fileDefaults(D, dpath, fname) ==
    LET file == D[dpath].files[fname]
        parts == Split(Stem(fname), "-")
        parsed == Strptime(parts[2], FmtSec)
    IN  IF Suffix(fname) # ZipSuffix THEN [raised |-> "none", backup |-> NoBackup]
        ELSE IF ~file.container THEN [raised |-> "BadZipFile", backup |-> NoBackup]
        ELSE IF ~file.meta THEN [raised |-> "NotABackupException", backup |-> NoBackup]
        ELSE IF Len(parts) < 2 THEN [raised |-> "IndexError", backup |-> NoBackup]
        ELSE IF ~parsed.ok THEN [raised |-> "ValueError", backup |-> NoBackup]
        ELSE [raised |-> "none",
              backup |-> [name |-> parts[1],
                          path |-> [parent |-> dpath, name |-> fname],
                          date_format |-> FmtSec,
                          name_separator |-> "-",
                          target |-> file.target,
                          date |-> parsed.date,
                          content_hash |-> file.content_hash,
                          content_type |-> file.content_type]]

\* BackupManager.get_backup_from_file on the file fname of directory dpath: with
\* another suffix than .zip the body of the `if` is skipped and None is returned
get_backup_from_file(D, dpath, fname) ==
    LET file == D[dpath].files[fname]
        parts == Split(Stem(fname), file.name_separator)
        parsed == Strptime(parts[2], file.date_format)
    IN  IF Suffix(fname) # ZipSuffix THEN [raised |-> "none", backup |-> NoBackup]
        ELSE IF ~file.container THEN [raised |-> "BadZipFile", backup |-> NoBackup]
        ELSE IF ~file.meta THEN [raised |-> "NotABackupException", backup |-> NoBackup]
        ELSE IF Len(parts) < 2 THEN [raised |-> "IndexError", backup |-> NoBackup]
        ELSE IF ~parsed.ok THEN [raised |-> "ValueError", backup |-> NoBackup]
        ELSE [raised |-> "none",
              backup |-> [name |-> parts[1],
                          path |-> [parent |-> dpath, name |-> fname],
                          date_format |-> file.date_format,
                          name_separator |-> file.name_separator,
                          target |-> file.target,
                          date |-> parsed.date,
                          content_hash |-> file.content_hash,
                          content_type |-> file.content_type]]

\* Backup._load_zip: a BadZipFile becomes a FormatException
_load_zip(D, dpath, fname) ==
    LET file == D[dpath].files[fname]
        parts == Split(Stem(fname), file.name_separator)
        parsed == Strptime(parts[2], file.date_format)
    IN  IF ~file.container THEN [raised |-> "FormatException", backup |-> NoBackup]
        ELSE IF ~file.meta THEN [raised |-> "NotABackupException", backup |-> NoBackup]
        ELSE IF Len(parts) < 2 THEN [raised |-> "IndexError", backup |-> NoBackup]
        ELSE IF ~parsed.ok THEN [raised |-> "ValueError", backup |-> NoBackup]
        ELSE [raised |-> "none",
              backup |-> [name |-> parts[1],
                          path |-> [parent |-> dpath, name |-> fname],
                          date_format |-> file.date_format,
                          name_separator |-> file.name_separator,
                          target |-> file.target,
                          date |-> parsed.date,
                          content_hash |-> file.content_hash,
                          content_type |-> file.content_type]]

\* Backup.from_file
from_file(D, dpath, fname) ==
    IF Suffix(fname) = ZipSuffix THEN _load_zip(D, dpath, fname)
    ELSE [raised |-> "FormatException", backup |-> NoBackup]

\* destination.path.glob("*.zip")
ZipFiles(D, dpath) == { n \in DOMAIN D[dpath].files : Suffix(n) = ZipSuffix }

\* list.sort(key=date) of the backups B listed in any enumeration order
SortedByDate(B) ==
    { s \in [1..Cardinality(B) -> B] :
        /\ \A i, j \in 1..Cardinality(B) : i # j => s[i] # s[j]
        /\ \A i, j \in 1..Cardinality(B) : i < j => s[i].date <= s[j].date }

\* BackupManager._get_destination_backups: the exceptions it can end with
\* (empty when it returns) and the lists it can return
DestinationRaises(D, destination) ==
    IF destination.file_format \notin VALID_FILE_FORMATS THEN {"FormatException"}
    ELSE IF ~D[destination.path].exists THEN {}
    ELSE { get_backup_from_file(D, destination.path, n).raised :
             n \in ZipFiles(D, destination.path) } \ {"none"}

_get_destination_backups(D, destination) ==
    IF ~D[destination.path].exists THEN {<<>>}
    ELSE SortedByDate({ get_backup_from_file(D, destination.path, n).backup :
                          n \in ZipFiles(D, destination.path) })

\* BackupManager._get_backups: the backups of one target, in list order
_get_backups(D, target, destination) ==
    { SelectSeq(s, LAMBDA b : b.target = target) :
        s \in _get_destination_backups(D, destination) }

\* get_latest_backup with backups[0] for backups[-1]
get_oldest_backup(D, destination, target) ==
    { IF Len(s) = 0 THEN NoBackup ELSE s[1] :
        s \in _get_backups(D, target, destination) }

\* BackupManager.get_latest_backup(destination, target)
get_latest_backup(D, destination, target) ==
    { IF Len(s) = 0 THEN NoBackup ELSE s[Len(s)] :
        s \in _get_backups(D, target, destination) }

\* _get_delete_candidates that leaves one backup more than max_backup_count
_get_delete_candidatesLax(D, target, destination) ==
    { IF Len(s) > destination.max_backup_count + 1
      THEN SubSeq(s, 1, Len(s) - destination.max_backup_count - 1)
      ELSE <<>> :
        s \in { SelectSeq(all, LAMBDA b : b.target = target) :
                  all \in _get_destination_backups(D, destination) } }

\* BackupManager._get_delete_candidates
_get_delete_candidates(D, target, destination) ==
    { IF Len(s) > destination.max_backup_count
      THEN SubSeq(s, 1, Len(s) - destination.max_backup_count)
      ELSE <<>> :
        s \in { SelectSeq(all, LAMBDA b : b.target = target) :
                  all \in _get_destination_backups(D, destination) } }

\* BackupManager.delete_backup for every backup of the list cands
DeleteAll(D, cands) ==
    LET gone(d) == { cands[i].path.name :
                       i \in {k \in 1..Len(cands) : cands[k].path.parent = d} }
    IN [d \in DOMAIN D |->
          [D[d] EXCEPT !.files = [n \in (DOMAIN D[d].files) \ gone(d) |-> D[d].files[n]]]]

----------------------------------------------------------------------------
(* Presets *)

MakePreset(n, ts, ds) == [name |-> n, targets |-> ts, destinations |-> ds]

PresetOne == MakePreset("one", <<PathT>>, <<Dest1>>)
PresetGrid == MakePreset("grid", <<PathT, PathM>>, <<Dest1, Dest2>>)
PresetGone == MakePreset("gone", <<PathY, PathT>>, <<Dest2>>)
PresetDash == MakePreset("dash", <<PathD>>, <<Dest1>>)
PresetBoth == MakePreset("both", <<PathT>>, <<Dest1, Dest2>>)
PresetPair == MakePreset("pair", <<PathT, PathM>>, <<Dest2>>)

\* the Destination of d2 after its name_separator and its date_format were set
Settings ==
    {Dest2, SetDateFormat(SetNameSeparator(Dest2, "_"), FmtSec)}

SettingsPresets == { MakePreset("settings", <<PathT>>, <<d>>) : d \in Settings }

Presets == {PresetOne, PresetGrid, PresetGone}

\* no Preset
NoPreset == MakePreset("", <<>>, <<>>)

Built(raised, preset) == [raised |-> raised, preset |-> preset]

\* Preset.add_target without the isinstance check
add_targetUnchecked(preset, v) ==
    Built("none", [preset EXCEPT !.targets = Append(@, v.path)])

\* Preset.add_target
add_target(preset, v) ==
    IF v.type = "Path" THEN Built("none", [preset EXCEPT !.targets = Append(@, v.path)])
    ELSE Built("TypeError", preset)

\* Preset.add_destination
add_destination(preset, v) ==
    IF v.type = "Destination"
    THEN Built("none", [preset EXCEPT !.destinations = Append(@, v.destination)])
    ELSE Built("TypeError", preset)

\* itertools.product(preset._targets, preset._destinations), as a list
Pairs(preset) ==
    LET nd == Len(preset.destinations)
    IN [k \in 1..(Len(preset.targets) * nd) |->
          <<preset.targets[((k - 1) \div nd) + 1], preset.destinations[((k - 1) % nd) + 1]>>]

----------------------------------------------------------------------------
(* The PresetManager and its config file *)

\* str(path) and Path(string)
PathStr(p) == <<"/", p.parent, "/">> \o p.name
StrPath(s) == [parent |-> s[2], name |-> SubSeq(s, 4, Len(s))]

\* PresetEncoder.default: the JSON objects of a Destination and of a Preset
EncodeDestination(d) ==
    [path |-> <<"/", d.path>>, max_backup_count |-> d.max_backup_count,
     file_format |-> d.file_format, date_format |-> d.date_format,
     name_separator |-> d.name_separator]

EncodePreset(p) ==
    [targets |-> [i \in 1..Len(p.targets) |-> PathStr(p.targets[i])],
     destinations |-> [i \in 1..Len(p.destinations) |->
                         EncodeDestination(p.destinations[i])]]

\* json.dump of _format_presets_dict(presets)
ConfigFile(format, presets) ==
    [format |-> format, presets |-> [n \in DOMAIN presets |-> EncodePreset(presets[n])]]

\* jsonschema.validate of the JSON object o against the definition "Preset"
ValidPreset(o) ==
    /\ Len(o.targets) >= 1
    /\ Len(o.destinations) >= 1
    /\ \A i \in 1..Len(o.destinations) : o.destinations[i].file_format \in VALID_FILE_FORMATS

\* DestinationManager.get_destination
get_destination(D, o) ==
    Destination(D, o.path[2], o.date_format, o.name_separator, o.max_backup_count,
                o.file_format)

\* PresetManager._get_presets, for the preset n of the file: the Preset, or the
\* exception of the first destination that cannot be made
DecodePreset(D, n, o) ==
    LET made == [i \in 1..Len(o.destinations) |-> get_destination(D, o.destinations[i])]
        bad == {i \in 1..Len(made) : made[i].raised # "none"}
    IN  IF bad # {}
        THEN Built(made[CHOOSE i \in bad : \A j \in bad : i <= j].raised, NoPreset)
        ELSE Built("none",
                   MakePreset(n, [i \in 1..Len(o.targets) |-> StrPath(o.targets[i])],
                              [i \in 1..Len(made) |-> made[i].destination]))

Managed(raised, M) == [raised |-> raised, mgr |-> M]

\* PresetManager(config_file): the one instance is initialised again from the
\* file; when that raises, its presets stay as they were
PresetManager(D, M) ==
    LET names == DOMAIN M.file.presets
        decoded == [n \in names |-> DecodePreset(D, n, M.file.presets[n])]
        bad == {n \in names : decoded[n].raised # "none"}
    IN  IF \E n \in names : ~ValidPreset(M.file.presets[n])
        THEN {Managed("InvalidPresetConfig", M)}
        ELSE IF bad # {}
        THEN { Managed(decoded[n].raised, M) : n \in bad }
        ELSE {Managed("none", [M EXCEPT !.presets = [n \in names |-> decoded[n].preset]])}

\* PresetManager.get_preset and PresetManager.__getitem__
get_preset(M, name) ==
    IF name \in DOMAIN M.presets THEN Built("none", M.presets[name])
    ELSE Built("PresetNotFoundException", NoPreset)

\* PresetManager.save_preset
save_preset(M, preset) ==
    LET presets == [n \in (DOMAIN M.presets) \cup {preset.name} |->
                      IF n = preset.name THEN preset ELSE M.presets[n]]
    IN [M EXCEPT !.presets = presets, !.file = ConfigFile(M.file.format, presets)]

\* PresetManager.delete_preset with self._presets.pop(preset.name, None)
delete_presetQuiet(M, name) ==
    LET presets == [n \in (DOMAIN M.presets) \ {name} |-> M.presets[n]]
    IN Managed("none", [M EXCEPT !.presets = presets,
                                !.file = ConfigFile(M.file.format, presets)])

\* PresetManager.delete_preset
delete_preset(M, name) ==
    LET presets == [n \in (DOMAIN M.presets) \ {name} |-> M.presets[n]]
    IN  IF name \notin DOMAIN M.presets THEN Managed("PresetNotFoundException", M)
        ELSE Managed("none", [M EXCEPT !.presets = presets,
                                      !.file = ConfigFile(M.file.format, presets)])

\* the manager made from a config file that holds the preset "one"
InitManager ==
    [presets |-> [n \in {"one"} |-> PresetOne],
     file |-> ConfigFile(1, [n \in {"one"} |-> PresetOne]),
     draft |-> NoPreset]

PresetNames == {"one", "books"}

\* what a caller may hand to add_target and to add_destination
TargetValues == {PathValue(PathT), StrValue, DestinationValue(Dest1)}
DestinationValues == {DestinationValue(Dest1), PathValue(PathT), StrValue}

----------------------------------------------------------------------------
(* Archive creation *)

\* a zip entry keeps its file's modification time to two seconds
ZipTime(m) == m \div (2 * TicksPerSec)

\* the entries the first ZipFile block of _create_zip_archive writes: the files
\* of a directory in the order glob lists them, or the one file, each with its
\* relative name, its bytes and its modification time
ZipEntries(F, target) ==
    IF IsDir(F, target)
    THEN [i \in 1..Len(NodeAt(F, target).entries) |->
            [NodeAt(F, target).entries[i] EXCEPT !.mtime = ZipTime(@)]]
    ELSE <<[name |-> target.name, kind |-> "file", data |-> NodeAt(F, target).data,
            mtime |-> ZipTime(NodeAt(F, target).mtime)]>>

\* BackupManager._create_metafile: the metadata record
_create_metafile(F, target, destination, content_hash) ==
    [meta |-> TRUE,
     target |-> target,
     name_separator |-> destination.name_separator,
     date_format |-> destination.date_format,
     content_hash |-> content_hash,
     content_type |-> get_content_type(F, target)]

\* a zip file that was closed before the .yabu.meta entry was added to it
PartialArchive(entries) == [ForeignFile EXCEPT !.entries = entries]

\* the directory dpath of D after the file fname was written (made or replaced)
WriteFile(D, dpath, fname, file) ==
    [D EXCEPT ![dpath].files =
       [n \in (DOMAIN @) \cup {fname} |-> IF n = fname THEN file ELSE @[n]]]

Written(raised, D) == [raised |-> raised, dest |-> D]

\* the archive that lines 200-204 complete from the entries of the first block
CompleteArchive(F, target, destination, entries) ==
    LET metafile == _create_metafile(F, target, destination, md5(entries))
    IN [container |-> TRUE, meta |-> TRUE, target |-> metafile.target,
        name_separator |-> metafile.name_separator,
        date_format |-> metafile.date_format,
        content_hash |-> metafile.content_hash,
        content_type |-> metafile.content_type,
        entries |-> entries]

\* BackupManager._create_zip_archive: the error it raises and the destinations
\* it leaves. ZipFile mode "w" makes or replaces archive_name + ".zip" before
\* the target is looked at, and closing it leaves a zip file with no entry.
_create_zip_archive(D, F, archive_name, target, destination) ==
    LET fname == archive_name \o ZipSuffix
    IN  IF ~IsDir(F, target) /\ ~IsFile(F, target)
        THEN Written("ValueError",
                     WriteFile(D, destination.path, fname, PartialArchive(<<>>)))
        ELSE Written("none",
                     WriteFile(D, destination.path, fname,
                               CompleteArchive(F, target, destination,
                                               ZipEntries(F, target))))

\* where a KeyboardInterrupt can reach _create_zip_archive, and what the
\* destination holds then: "entries" inside the first ZipFile block with k
\* entries written, "hash" between the block and the touch of the metafile,
\* "metafile" from the touch to the end of the second block, "unlink" between
\* the second block and metafile.unlink()
InterruptPoints == {"entries", "hash", "metafile", "unlink"}

Interrupted(D, F, archive_name, target, destination, point, k) ==
    LET fname == archive_name \o ZipSuffix
        entries == ZipEntries(F, target)
        file == IF point = "entries" THEN PartialArchive(SubSeq(entries, 1, k))
                ELSE IF point = "unlink"
                THEN CompleteArchive(F, target, destination, entries)
                ELSE PartialArchive(entries)
        D1 == WriteFile(D, destination.path, fname, file)
    IN [D1 EXCEPT ![destination.path].temp = (point \in {"metafile", "unlink"}) \/ @]

\* the name create_backups gives the archive of a pair at time t
ArchiveName(target, destination, t) ==
    Stem(target.name) \o <<destination.name_separator>>
                      \o Strftime(t, destination.date_format)

Idle == [active |-> FALSE, preset |-> MakePreset("", <<>>, <<>>), force |-> FALSE,
         keep |-> FALSE, idx |-> 0, outcomes |-> <<>>]

NoOp == [op |-> "none", source |-> "", target |-> NoPath, backup |-> NoBackup,
         result |-> "", list |-> <<>>, before |-> NoNode, form |-> "",
         destination |-> NoDestination, value |-> NoValue, preset |-> NoPreset]

\* an error built with its arguments in another order: msg where target belongs
OutcomeMsgFirst(kind, target, destination, msg, backup) ==
    [kind |-> kind, target |-> msg, destination |-> destination, msg |-> target,
     backup |-> backup]

\* what the generator hands to its consumer for one pair
Outcome(kind, target, destination, msg, backup) ==
    [kind |-> kind, target |-> target, destination |-> destination, msg |-> msg,
     backup |-> backup]

CallRecord(outs, raised) ==
    [preset |-> gen.preset, force |-> gen.force, keep |-> gen.keep,
     outcomes |-> outs, raised |-> raised]

\* the generator yields o for the current pair, having left the destinations as D2
Yield(o, D2) ==
    LET outs == Append(gen.outcomes, o)
    IN /\ dest' = D2
       /\ IF gen.idx = Len(Pairs(gen.preset))
          THEN gen' = Idle /\ log' = Append(log, CallRecord(outs, "none"))
          ELSE gen' = [gen EXCEPT !.idx = @ + 1, !.outcomes = outs] /\ log' = log

\* an exception leaves the generator, having left the destinations as D2
Raise(e, D2) ==
    /\ dest' = D2
    /\ gen' = Idle
    /\ log' = Append(log, CallRecord(gen.outcomes, e))

\* BackupManager.create_backups(preset, force, keep): the call, up to the first pair
CreateBackupsStart(PS, max_calls) ==
    /\ ~gen.active
    /\ Len(log) < max_calls
    /\ \E preset \in PS, force \in BOOLEAN, keep \in BOOLEAN :
          gen' = [active |-> TRUE, preset |-> preset, force |-> force, keep |-> keep,
                  idx |-> 1, outcomes |-> <<>>]
    /\ last' = NoOp
    /\ UNCHANGED <<now, fs, dest, log, edits, mgr>>

\* BackupManager.create_backups: one pass of the loop, up to its yield
CreateBackupsNext(max_clock) ==
    /\ gen.active
    /\ now < max_clock
    /\ LET target == Pairs(gen.preset)[gen.idx][1]
           destination == Pairs(gen.preset)[gen.idx][2]
           archive_name == ArchiveName(target, destination, now)
           archive_path == [parent |-> destination.path, name |-> archive_name \o ZipSuffix]
           created == _create_zip_archive(dest, fs, archive_name, target, destination)
           D1 == created.dest
           new == get_backup_from_file(D1, destination.path, archive_path.name)
           D2 == [D1 EXCEPT ![destination.path].files = Remove(@, archive_path.name)]
       IN IF DestinationRaises(dest, destination) # {}
          THEN \E e \in DestinationRaises(dest, destination) : Raise(e, dest)
          ELSE \E latest_backup \in get_latest_backup(dest, destination, target) :
            IF ~Exists(fs, target)
            THEN Yield(Outcome("TargetNotFoundException", target, destination,
                               target, NoBackup), dest)
            ELSE IF ~dest[destination.path].exists
            THEN Yield(Outcome("DestinationNotFoundException", target, destination,
                               [parent |-> "", name |-> <<destination.path>>], NoBackup),
                       dest)
            ELSE IF destination.file_format # "zip"
            THEN Yield(Outcome("FormatException", target, destination, NoPath, NoBackup),
                       dest)
            ELSE IF created.raised # "none"
            THEN Raise(created.raised, D1)
            ELSE IF new.raised # "none"
            THEN Raise(new.raised, D1)
            ELSE IF ~gen.force /\ latest_backup # NoBackup
                    /\ latest_backup.content_hash = new.backup.content_hash
            THEN Yield(Outcome("BackupHashException", target, destination,
                               latest_backup.path, NoBackup), D2)
            ELSE IF ~gen.keep
            THEN \E cands \in _get_delete_candidates(D1, target, destination) :
                    Yield(Outcome("Backup", target, destination, NoPath, new.backup),
                          DeleteAll(D1, cands))
            ELSE Yield(Outcome("Backup", target, destination, NoPath, new.backup), D1)
    /\ now' = now + 1
    /\ last' = NoOp
    /\ UNCHANGED <<fs, edits, mgr>>

\* a KeyboardInterrupt reaches create_backups while _create_zip_archive writes
\* the archive of the current pair; nothing catches it
CreateBackupsInterrupted(max_clock) ==
    /\ gen.active
    /\ now < max_clock
    /\ LET target == Pairs(gen.preset)[gen.idx][1]
           destination == Pairs(gen.preset)[gen.idx][2]
           archive_name == ArchiveName(target, destination, now)
       IN /\ DestinationRaises(dest, destination) = {}
          /\ IsDir(fs, target) \/ IsFile(fs, target)
          /\ dest[destination.path].exists
          /\ destination.file_format = "zip"
          /\ \E point \in InterruptPoints :
               \E k \in 0..(IF point = "entries" THEN Len(ZipEntries(fs, target)) ELSE 0) :
                  Raise("KeyboardInterrupt",
                        Interrupted(dest, fs, archive_name, target, destination, point, k))
    /\ now' = now + 1
    /\ last' = NoOp
    /\ UNCHANGED <<fs, edits, mgr>>

----------------------------------------------------------------------------
(* Discovery *)

\* BackupManager.get_backups(source) for a Destination source and no target
GetBackups ==
    /\ ~gen.active
    /\ \E destination \in {Dest1, Dest2} :
          IF DestinationRaises(dest, destination) # {}
          THEN \E e \in DestinationRaises(dest, destination) :
                  last' = [NoOp EXCEPT !.op = "get_backups", !.source = destination.path,
                                       !.result = e]
          ELSE \E s \in _get_destination_backups(dest, destination) :
                  last' = [NoOp EXCEPT !.op = "get_backups", !.source = destination.path,
                                       !.result = "returned", !.list = s]
    /\ UNCHANGED <<now, fs, dest, gen, log, edits, mgr>>

\* the source argument of get_backups and get_latest_backup
DestinationSource(destination) ==
    [form |-> "Destination", name |-> destination.path, targets |-> <<>>,
     destinations |-> <<destination>>]

PresetSource(preset) ==
    [form |-> "Preset", name |-> preset.name, targets |-> preset.targets,
     destinations |-> preset.destinations]

\* a preset that names its target twice
PresetTwice == MakePreset("twice", <<PathT, PathT>>, <<Dest1>>)

Sources ==
    {DestinationSource(Dest1), DestinationSource(Dest2),
     PresetSource(PresetOne), PresetSource(PresetTwice)}

\* the target argument: a path, or NoPath for None
Filters == {NoPath, PathT, PathM}

Got(raised, list) == [raised |-> raised, list |-> list]

\* list.sort(key=date) of the list c
SortedLists(c) ==
    LET n == Len(c)
    IN { [i \in 1..n |-> c[q[i]]] :
           q \in { r \in [1..n -> 1..n] :
                     /\ \A i, j \in 1..n : i # j => r[i] # r[j]
                     /\ \A i, j \in 1..n : i < j => c[r[i]].date <= c[r[j]].date } }

RECURSIVE Concats(_, _, _)
\* get_backups lines 489-493: the lists the loop over the pairs k.. can build
Concats(D, pairs, k) ==
    IF k > Len(pairs) THEN {<<>>}
    ELSE { a \o b : a \in _get_backups(D, pairs[k][1], pairs[k][2]),
                    b \in Concats(D, pairs, k + 1) }

\* BackupManager.get_backups(source, target): what it raises or returns. With a
\* Preset and a target (lines 496-499) the list `backups` is read before it is
\* bound.
get_backups(D, source, target) ==
    LET destination == source.destinations[1]
        pairs == Pairs(source)
        raising == {k \in 1..Len(pairs) : DestinationRaises(D, pairs[k][2]) # {}}
        first == CHOOSE k \in raising : \A j \in raising : k <= j
    IN  IF source.form = "Destination"
        THEN IF DestinationRaises(D, destination) # {}
             THEN { Got(e, <<>>) : e \in DestinationRaises(D, destination) }
             ELSE IF target = NoPath
             THEN { Got("none", s) : s \in _get_destination_backups(D, destination) }
             ELSE { Got("none", s) : s \in _get_backups(D, target, destination) }
        ELSE IF target = NoPath
        THEN IF raising # {}
             THEN { Got(e, <<>>) : e \in DestinationRaises(D, pairs[first][2]) }
             ELSE { Got("none", s) : s \in UNION { SortedLists(c) : c \in Concats(D, pairs, 1) } }
        ELSE {Got("UnboundLocalError", <<>>)}

\* a caller lists the backups of a source other than a whole destination
GetBackupsOf ==
    /\ ~gen.active
    /\ \E source \in Sources, target \in Filters :
          /\ source.form = "Preset" \/ target # NoPath
          /\ \E r \in get_backups(dest, source, target) :
                last' = [NoOp EXCEPT !.op = "get_backups_of", !.form = source.form,
                                     !.source = source.name, !.target = target,
                                     !.result = IF r.raised = "none" THEN "returned"
                                                ELSE r.raised,
                                     !.list = r.list]
    /\ UNCHANGED <<now, fs, dest, gen, log, edits, mgr>>

\* BackupManager.get_latest_backup(source, target)
GetLatestBackup ==
    /\ ~gen.active
    /\ \E source \in Sources, target \in Filters :
          \E r \in get_backups(dest, source, target) :
             last' = [NoOp EXCEPT !.op = "get_latest_backup", !.form = source.form,
                                  !.source = source.name, !.target = target,
                                  !.result = IF r.raised = "none" THEN "returned"
                                             ELSE r.raised,
                                  !.backup = IF r.raised # "none" \/ Len(r.list) = 0
                                             THEN NoBackup ELSE r.list[Len(r.list)]]
    /\ UNCHANGED <<now, fs, dest, gen, log, edits, mgr>>

\* what a loader hands to its caller
Loaded(r) ==
    IF r.raised # "none" THEN r.raised
    ELSE IF r.backup = NoBackup THEN "None"
    ELSE "returned"

\* a caller loads a file of a destination with BackupManager.get_backup_from_file
GetBackupFromFile ==
    /\ ~gen.active
    /\ \E d \in DestPaths :
          \E n \in DOMAIN dest[d].files :
             LET r == get_backup_from_file(dest, d, n)
             IN last' = [NoOp EXCEPT !.op = "get_backup_from_file",
                                     !.target = [parent |-> d, name |-> n],
                                     !.result = Loaded(r), !.backup = r.backup]
    /\ UNCHANGED <<now, fs, dest, gen, log, edits, mgr>>

\* a caller loads a file of a destination with Backup.from_file
BackupFromFile ==
    /\ ~gen.active
    /\ \E d \in DestPaths :
          \E n \in DOMAIN dest[d].files :
             LET r == from_file(dest, d, n)
             IN last' = [NoOp EXCEPT !.op = "from_file",
                                     !.target = [parent |-> d, name |-> n],
                                     !.result = Loaded(r), !.backup = r.backup]
    /\ UNCHANGED <<now, fs, dest, gen, log, edits, mgr>>

----------------------------------------------------------------------------
(* Destinations made and changed by the caller *)

\* Destination(path, date_format, name_separator, max_backup_count, file_format)
NewDestination ==
    /\ ~gen.active
    /\ \E path \in DestPaths, date_format \in DateFormats, name_separator \in Separators,
          max_backup_count \in 0..1, file_format \in {"zip", "tar"} :
          LET r == Destination(dest, path, date_format, name_separator,
                               max_backup_count, file_format)
          IN last' = [NoOp EXCEPT !.op = "Destination",
                                  !.result = IF r.raised = "none" THEN "returned"
                                             ELSE r.raised,
                                  !.destination = r.destination]
    /\ UNCHANGED <<now, fs, dest, gen, log, edits, mgr>>

\* destination.name_separator = ... or destination.date_format = ... on the
\* Destination the caller holds
SetAttribute ==
    /\ ~gen.active
    /\ last.op \in {"Destination", "setter"}
    /\ last.result = "returned"
    /\ \E d \in {SetNameSeparator(last.destination, sep) : sep \in Separators}
                  \cup {SetDateFormat(last.destination, fmt) : fmt \in DateFormats} :
          /\ d # last.destination
          /\ last' = [NoOp EXCEPT !.op = "setter", !.result = "returned",
                                  !.destination = d]
    /\ UNCHANGED <<now, fs, dest, gen, log, edits, mgr>>

\* the values a caller may assign to max_backup_count
CountValues(max_value) ==
    {IntValue(n) : n \in -1..max_value}
    \cup {BoolValue(0), BoolValue(1), FloatValue(1), StrValue}

\* destination.max_backup_count = ... on the Destination the caller holds
SetMaxBackupCount(max_value) ==
    /\ ~gen.active
    /\ last.op \in {"Destination", "setter"}
    /\ last.destination # NoDestination
    /\ \E v \in CountValues(max_value) :
          LET r == set_max_backup_count(last.destination, v)
          IN last' = [NoOp EXCEPT !.op = "setter",
                                  !.result = IF r.raised = "none" THEN "returned"
                                             ELSE r.raised,
                                  !.destination = r.destination, !.value = v]
    /\ UNCHANGED <<now, fs, dest, gen, log, edits, mgr>>

\* the presets the caller can build: a target with a dash in its stem, and
\* the Destination the caller holds
NamePresets ==
    {PresetDash}
    \cup (IF last.op \in {"Destination", "setter"} /\ last.result = "returned"
          THEN {MakePreset("made", <<PathT>>, <<last.destination>>)}
          ELSE {})

----------------------------------------------------------------------------
(* Restoration *)

\* every order in which a directory may enumerate the entries es
Orders(es) ==
    { s \in [1..Len(es) -> {es[i] : i \in 1..Len(es)}] :
        \A i, j \in 1..Len(es) : i # j => s[i] # s[j] }

\* ZipFile.extractall into a directory that holds the entries old: an entry of
\* the archive replaces the one of its name and gets the time of extraction,
\* the others stay, and the .yabu.meta entry is unlinked again
ExtractedTrees(old, entries, t) ==
    LET kept == SelectSeq(old, LAMBDA e : \A i \in 1..Len(entries) : entries[i].name # e.name)
        fresh == [i \in 1..Len(entries) |-> [entries[i] EXCEPT !.mtime = t]]
    IN { FolderNode(s) : s \in Orders(kept \o fresh) }

\* restore_backup without the check of line 400
ParentMissingUnchecked(F, target) == FALSE

\* restore_backup line 400: the target's parent directory is missing
ParentMissing(F, target) == ~F[target.parent].exists

\* restore_backup with the second half of the check of lines 402-404 left out
TypeMismatchFileOnly(F, target, backup) ==
    IsDir(F, target) /\ backup.content_type = "file"

\* restore_backup lines 402-404: the target's type conflicts with the backup's
TypeMismatch(F, target, backup) ==
    \/ IsDir(F, target) /\ backup.content_type = "file"
    \/ IsFile(F, target) /\ backup.content_type = "folder"

Restored(raised, F) == [raised |-> raised, fs |-> F]

\* rmdir(path): the files and the sub-directories of path are removed, then
\* path itself, which fails when anything else is left in it
rmdir(F, path) ==
    LET left == SelectSeq(NodeAt(F, path).entries,
                          LAMBDA e : e.kind \notin {"file", "folder"})
    IN  IF ~IsDir(F, path) THEN Restored("ValueError", F)
        ELSE IF left # <<>> THEN Restored("OSError", PutNode(F, path, FolderNode(left)))
        ELSE Restored("none", PutNode(F, path, NoNode))

\* restore_backup lines 409-411 written as target.mkdir(exist_ok=True)
RecreateKeep(F, target) ==
    IF Exists(F, target) THEN Restored("none", F)
    ELSE Restored("none", PutNode(F, target, FolderNode(<<>>)))

\* restore_backup lines 409-411: the target is removed if it exists, then made
Recreate(F, target) ==
    LET removed == IF Exists(F, target) THEN rmdir(F, target) ELSE Restored("none", F)
    IN  IF removed.raised # "none" THEN removed
        ELSE IF Exists(removed.fs, target) THEN Restored("FileExistsError", removed.fs)
        ELSE Restored("none", PutNode(removed.fs, target, FolderNode(<<>>)))

\* restore_backup, content type "folder": lines 409-417
RestoreFolder(F, D, target, backup, t) ==
    LET made == Recreate(F, target)
        archives == D[backup.path.parent].files
    IN  IF made.raised # "none" THEN {made}
        ELSE IF Suffix(backup.path.name) # ZipSuffix
        THEN {Restored("FormatException", made.fs)}
        ELSE IF ~D[backup.path.parent].exists \/ backup.path.name \notin DOMAIN archives
        THEN {Restored("FileNotFoundError", made.fs)}
        ELSE { Restored("none", PutNode(made.fs, target, tree)) :
                 tree \in ExtractedTrees(NodeAt(made.fs, target).entries,
                                         archives[backup.path.name].entries, t) }

RECURSIVE ExtractInto(_, _, _, _, _)
\* ZipFile.extractall of entries[i..] into the directory parent
ExtractInto(F, parent, entries, i, t) ==
    IF i > Len(entries) THEN Restored("none", F)
    ELSE LET path == [parent |-> parent, name |-> entries[i].name]
         IN IF IsDir(F, path) THEN Restored("IsADirectoryError", F)
            ELSE ExtractInto(PutNode(F, path, FileNode(entries[i].data, t)),
                             parent, entries, i + 1, t)

\* restore_backup, content type "file": lines 419-423
RestoreFile(F, D, target, backup, t) ==
    LET unlinked == PutNode(F, target, NoNode)
        archives == D[backup.path.parent].files
        extracted == ExtractInto(unlinked, target.parent,
                                 archives[backup.path.name].entries, 1, t)
        metafile == [parent |-> target.parent, name |-> MetaName]
    IN  IF Suffix(backup.path.name) # ZipSuffix THEN {Restored("FormatException", F)}
        ELSE IF ~D[backup.path.parent].exists \/ backup.path.name \notin DOMAIN archives
        THEN {Restored("FileNotFoundError", unlinked)}
        ELSE IF extracted.raised # "none" THEN {extracted}
        ELSE {Restored("none", PutNode(extracted.fs, metafile, NoNode))}

\* BackupManager.restore_backup(target, backup) at time t: the outcomes it can have
restore_backup(F, D, target, backup, t) ==
    IF ParentMissing(F, target) THEN {Restored("FileNotFoundError", F)}
    ELSE IF TypeMismatch(F, target, backup) THEN {Restored("ContentTypeException", F)}
    ELSE IF backup.content_type = "folder" THEN RestoreFolder(F, D, target, backup, t)
    ELSE IF backup.content_type = "file" THEN RestoreFile(F, D, target, backup, t)
    ELSE {Restored("ContentTypeException", F)}

\* the Backup values a caller can get from the destinations that can be listed
KnownBackups(D) ==
    UNION { IF DestinationRaises(D, destination) # {} THEN {}
            ELSE { get_backup_from_file(D, destination.path, n).backup :
                     n \in ZipFiles(D, destination.path) } :
            destination \in {Dest1, Dest2} }

\* a caller restores a backup it found, or one whose content type it does not know
RestoreBackup(max_edits) ==
    /\ ~gen.active
    /\ edits < max_edits
    /\ \E target \in TargetPaths, b \in KnownBackups(dest) :
         \E ct \in {b.content_type, "other"} :
            LET backup == [b EXCEPT !.content_type = ct]
            IN \E r \in restore_backup(fs, dest, target, backup, now) :
                  /\ fs' = r.fs
                  /\ last' = [NoOp EXCEPT !.op = "restore_backup", !.target = target,
                                          !.backup = backup, !.result = r.raised,
                                          !.before = NodeAt(fs, target)]
    /\ edits' = edits + 1
    /\ UNCHANGED <<now, dest, gen, log, mgr>>

\* a caller restores a Backup whose path names a copy of an archive under
\* another suffix than .zip
RestoreCopied(max_edits) ==
    /\ ~gen.active
    /\ edits < max_edits
    /\ \E target \in TargetPaths, b \in KnownBackups(dest) :
         LET backup == [b EXCEPT !.path.name = Stem(@) \o <<".", "tar">>]
         IN \E r \in restore_backup(fs, dest, target, backup, now) :
               /\ fs' = r.fs
               /\ last' = [NoOp EXCEPT !.op = "restore_backup", !.target = target,
                                       !.backup = backup, !.result = r.raised,
                                       !.before = NodeAt(fs, target)]
    /\ edits' = edits + 1
    /\ UNCHANGED <<now, dest, gen, log, mgr>>

\* the location argument of CommandHandler.restore_backup: a preset name, a
\* path, or a value of another type
Location(type, name, path) == [type |-> type, name |-> name, path |-> path]

Locations ==
    {Location("str", n, NoPath) : n \in PresetNames}
    \cup {Location("Path", "", p) : p \in {PathT, PathM}}
    \cup {Location("int", "", NoPath)}

Handled(raised, F, M) == [raised |-> raised, fs |-> F, mgr |-> M]

\* CommandHandler.restore_backup without the test of line 133
CommandHandler_restore_backupUnchecked(F, D, M, location, backup, t) ==
    IF location.type = "str"
    THEN UNION { IF loaded.raised # "none" THEN {Handled(loaded.raised, F, loaded.mgr)}
                 ELSE LET got == get_preset(loaded.mgr, location.name)
                      IN IF got.raised # "none"
                         THEN {Handled(got.raised, F, loaded.mgr)}
                         ELSE { Handled(r.raised, r.fs, loaded.mgr) :
                                  r \in restore_backup(F, D, backup.target, backup, t) } :
                 loaded \in PresetManager(D, M) }
    ELSE IF location.type = "Path"
    THEN { Handled(r.raised, r.fs, M) :
             r \in restore_backup(F, D, location.path, backup, t) }
    ELSE {Handled("TypeError", F, M)}

\* CommandHandler.restore_backup(location, backup) at time t: the outcomes it
\* can have
CommandHandler_restore_backup(F, D, M, location, backup, t) ==
    IF location.type = "str"
    THEN UNION { IF loaded.raised # "none" THEN {Handled(loaded.raised, F, loaded.mgr)}
                 ELSE LET got == get_preset(loaded.mgr, location.name)
                          _targets == got.preset.targets
                      IN IF got.raised # "none"
                         THEN {Handled(got.raised, F, loaded.mgr)}
                         ELSE IF \E i \in 1..Len(_targets) : _targets[i] = backup.target
                         THEN { Handled(r.raised, r.fs, loaded.mgr) :
                                  r \in restore_backup(F, D, backup.target, backup, t) }
                         ELSE {Handled("TargetMatchException", F, loaded.mgr)} :
                 loaded \in PresetManager(D, M) }
    ELSE IF location.type = "Path"
    THEN { Handled(r.raised, r.fs, M) :
             r \in restore_backup(F, D, location.path, backup, t) }
    ELSE {Handled("TypeError", F, M)}

\* a caller of the CommandHandler restores a backup it found
HandlerRestoreBackup(max_edits) ==
    /\ ~gen.active
    /\ edits < max_edits
    /\ \E location \in Locations, backup \in KnownBackups(dest) :
         \E r \in CommandHandler_restore_backup(fs, dest, mgr, location, backup, now) :
            /\ fs' = r.fs
            /\ mgr' = r.mgr
            /\ last' = [NoOp EXCEPT !.op = "CommandHandler.restore_backup",
                                    !.form = location.type, !.source = location.name,
                                    !.target = location.path, !.backup = backup,
                                    !.result = r.raised]
    /\ edits' = edits + 1
    /\ UNCHANGED <<now, dest, gen, log>>

----------------------------------------------------------------------------
(* Deletion *)

\* BackupManager.delete_backup(backup): backup.path.unlink()
delete_backup(D, backup) ==
    IF D[backup.path.parent].exists /\ backup.path.name \in DOMAIN D[backup.path.parent].files
    THEN Written("none", [D EXCEPT ![backup.path.parent].files = Remove(@, backup.path.name)])
    ELSE Written("FileNotFoundError", D)

\* a caller deletes a backup it found, or the one it deleted last
DeleteBackup(max_edits) ==
    /\ ~gen.active
    /\ edits < max_edits
    /\ \E backup \in KnownBackups(dest)
                     \cup (IF last.op = "delete_backup" THEN {last.backup} ELSE {}) :
          LET r == delete_backup(dest, backup)
          IN /\ dest' = r.dest
             /\ last' = [NoOp EXCEPT !.op = "delete_backup", !.backup = backup,
                                     !.result = r.raised]
    /\ edits' = edits + 1
    /\ UNCHANGED <<now, fs, gen, log, mgr>>

RECURSIVE get_delete_candidates(_, _, _)
\* BackupManager.get_delete_candidates(preset), from the pair k on: the
\* exception it ends with or the lists it can return
get_delete_candidates(D, pairs, k) ==
    IF k > Len(pairs) THEN {Got("none", <<>>)}
    ELSE IF DestinationRaises(D, pairs[k][2]) # {}
    THEN { Got(e, <<>>) : e \in DestinationRaises(D, pairs[k][2]) }
    ELSE { IF rest.raised # "none" THEN rest ELSE Got("none", cands \o rest.list) :
             cands \in _get_delete_candidates(D, pairs[k][1], pairs[k][2]),
             rest \in get_delete_candidates(D, pairs, k + 1) }

RECURSIVE delete_old_backups(_, _, _)
\* BackupManager.delete_old_backups(preset), from the pair k on: the exception
\* it ends with and the destinations it leaves
delete_old_backups(D, pairs, k) ==
    IF k > Len(pairs) THEN {Written("none", D)}
    ELSE IF DestinationRaises(D, pairs[k][2]) # {}
    THEN { Written(e, D) : e \in DestinationRaises(D, pairs[k][2]) }
    ELSE UNION { delete_old_backups(DeleteAll(D, cands), pairs, k + 1) :
                   cands \in _get_delete_candidates(D, pairs[k][1], pairs[k][2]) }

\* a caller asks which backups of a preset retention would delete
GetDeleteCandidates(PS) ==
    /\ ~gen.active
    /\ \E preset \in PS :
          \E r \in get_delete_candidates(dest, Pairs(preset), 1) :
             last' = [NoOp EXCEPT !.op = "get_delete_candidates", !.source = preset.name,
                                  !.result = IF r.raised = "none" THEN "returned"
                                             ELSE r.raised,
                                  !.list = r.list]
    /\ UNCHANGED <<now, fs, dest, gen, log, edits, mgr>>

\* a caller applies retention to the backups of a preset
DeleteOldBackups(PS) ==
    /\ ~gen.active
    /\ \E preset \in PS :
          \E r \in delete_old_backups(dest, Pairs(preset), 1) :
             /\ dest' = r.dest
             /\ last' = [NoOp EXCEPT !.op = "delete_old_backups", !.source = preset.name,
                                     !.result = IF r.raised = "none" THEN "returned"
                                                ELSE r.raised]
    /\ UNCHANGED <<now, fs, gen, log, edits, mgr>>

----------------------------------------------------------------------------
(* Presets built, saved, looked up and deleted *)

\* Preset(name)
NewPreset ==
    /\ ~gen.active
    /\ \E name \in PresetNames :
          /\ mgr' = [mgr EXCEPT !.draft = MakePreset(name, <<>>, <<>>)]
          /\ last' = [NoOp EXCEPT !.op = "Preset", !.source = name, !.result = "returned"]
    /\ UNCHANGED <<now, fs, dest, gen, log, edits>>

\* preset.add_target(v) on the Preset the caller builds
AddTarget(max_items) ==
    /\ ~gen.active
    /\ mgr.draft # NoPreset
    /\ \E v \in TargetValues :
          LET r == add_target(mgr.draft, v)
          IN /\ Len(r.preset.targets) <= max_items
             /\ mgr' = [mgr EXCEPT !.draft = r.preset]
             /\ last' = [NoOp EXCEPT !.op = "add_target", !.value = v,
                                     !.result = IF r.raised = "none" THEN "returned"
                                                ELSE r.raised]
    /\ UNCHANGED <<now, fs, dest, gen, log, edits>>

\* preset.add_destination(v) on the Preset the caller builds
AddDestination(max_items) ==
    /\ ~gen.active
    /\ mgr.draft # NoPreset
    /\ \E v \in DestinationValues :
          LET r == add_destination(mgr.draft, v)
          IN /\ Len(r.preset.destinations) <= max_items
             /\ mgr' = [mgr EXCEPT !.draft = r.preset]
             /\ last' = [NoOp EXCEPT !.op = "add_destination", !.value = v,
                                     !.result = IF r.raised = "none" THEN "returned"
                                                ELSE r.raised]
    /\ UNCHANGED <<now, fs, dest, gen, log, edits>>

\* manager.save_preset(preset) with the Preset the caller built, which the
\* caller lets go of
SavePreset ==
    /\ ~gen.active
    /\ mgr.draft # NoPreset
    /\ mgr' = [save_preset(mgr, mgr.draft) EXCEPT !.draft = NoPreset]
    /\ last' = [NoOp EXCEPT !.op = "save_preset", !.source = mgr.draft.name,
                            !.result = "returned", !.preset = mgr.draft]
    /\ UNCHANGED <<now, fs, dest, gen, log, edits>>

\* manager.delete_preset(Preset(name))
DeletePreset ==
    /\ ~gen.active
    /\ \E name \in PresetNames :
          LET r == delete_preset(mgr, name)
          IN /\ mgr' = r.mgr
             /\ last' = [NoOp EXCEPT !.op = "delete_preset", !.source = name,
                                     !.result = IF r.raised = "none" THEN "returned"
                                                ELSE r.raised]
    /\ UNCHANGED <<now, fs, dest, gen, log, edits>>

\* manager.get_preset(name), manager[name]
GetPreset ==
    /\ ~gen.active
    /\ \E name \in PresetNames :
          LET r == get_preset(mgr, name)
          IN last' = [NoOp EXCEPT !.op = "get_preset", !.source = name,
                                  !.result = IF r.raised = "none" THEN "returned"
                                             ELSE r.raised,
                                  !.preset = r.preset]
    /\ UNCHANGED <<now, fs, dest, gen, log, edits, mgr>>

\* PresetManager(config_file) is called again: the config file is reloaded
Reload ==
    /\ ~gen.active
    /\ \E r \in PresetManager(dest, mgr) :
          /\ mgr' = r.mgr
          /\ last' = [NoOp EXCEPT !.op = "PresetManager",
                                  !.result = IF r.raised = "none" THEN "returned"
                                             ELSE r.raised]
    /\ UNCHANGED <<now, fs, dest, gen, log, edits>>

----------------------------------------------------------------------------
(* The environment *)

\* time passes
Tick(max_clock) ==
    /\ now < max_clock
    /\ now' = now + 1
    /\ last' = NoOp
    /\ UNCHANGED <<fs, dest, gen, log, edits, mgr>>

\* the user rewrites, replaces or removes a target
SetTarget(paths, max_edits) ==
    /\ ~gen.active
    /\ edits < max_edits
    /\ \E path \in paths, node \in NodeChoices(now) :
          /\ node # NodeAt(fs, path)
          /\ fs' = PutNode(fs, path, node)
    /\ edits' = edits + 1
    /\ last' = NoOp
    /\ UNCHANGED <<now, dest, gen, log, mgr>>

\* the user writes other bytes to a target that is a file
WriteTarget(paths, max_edits) ==
    /\ ~gen.active
    /\ edits < max_edits
    /\ \E path \in paths, d \in Data :
          /\ IsFile(fs, path)
          /\ d # NodeAt(fs, path).data
          /\ fs' = PutNode(fs, path, FileNode(d, now))
    /\ edits' = edits + 1
    /\ last' = NoOp
    /\ UNCHANGED <<now, dest, gen, log, mgr>>

\* the user keeps a file of their own under the name .yabu.meta in the
\* directory of the targets
WriteStray(max_edits) ==
    /\ ~gen.active
    /\ edits < max_edits
    /\ \E d \in Data :
          LET path == [parent |-> "x", name |-> MetaName]
          IN /\ NodeAt(fs, path) # FileNode(d, now)
             /\ fs' = PutNode(fs, path, FileNode(d, now))
    /\ edits' = edits + 1
    /\ last' = NoOp
    /\ UNCHANGED <<now, dest, gen, log, mgr>>

\* the user puts a FIFO in the place of a target
SetSpecial(paths, max_edits) ==
    /\ ~gen.active
    /\ edits < max_edits
    /\ \E path \in paths :
          /\ NodeAt(fs, path) # SpecialNode
          /\ fs' = PutNode(fs, path, SpecialNode)
    /\ edits' = edits + 1
    /\ last' = NoOp
    /\ UNCHANGED <<now, dest, gen, log, mgr>>

\* the file system comes to enumerate a target directory in another order:
\* its entries, their bytes and their times stay as they are
Reenumerate(paths, max_edits) ==
    /\ ~gen.active
    /\ edits < max_edits
    /\ \E path \in paths :
          /\ IsDir(fs, path)
          /\ \E es \in Orders(NodeAt(fs, path).entries) :
                /\ es # NodeAt(fs, path).entries
                /\ fs' = PutNode(fs, path, FolderNode(es))
    /\ edits' = edits + 1
    /\ last' = NoOp
    /\ UNCHANGED <<now, dest, gen, log, mgr>>

\* a destination directory is removed with all it holds
RemoveDestination(max_edits) ==
    /\ ~gen.active
    /\ edits < max_edits
    /\ \E d \in DestPaths :
          /\ dest[d].exists
          /\ dest' = [dest EXCEPT ![d] = [exists |-> FALSE, files |-> <<>>, temp |-> FALSE]]
    /\ edits' = edits + 1
    /\ last' = NoOp
    /\ UNCHANGED <<now, fs, gen, log, mgr>>

\* a zip file that is no backup lands in a destination
DropForeign(max_edits) ==
    /\ ~gen.active
    /\ edits < max_edits
    /\ \E d \in DestPaths :
          /\ dest[d].exists
          /\ ForeignName \notin DOMAIN dest[d].files
          /\ dest' = [dest EXCEPT ![d].files =
                        [n \in (DOMAIN @) \cup {ForeignName} |->
                            IF n = ForeignName THEN ForeignFile ELSE @[n]]]
    /\ edits' = edits + 1
    /\ last' = NoOp
    /\ UNCHANGED <<now, fs, gen, log, mgr>>

\* a file that is no zip container lands in a destination, under a name
\* that ends in .zip or under another one
DropOther(max_edits) ==
    /\ ~gen.active
    /\ edits < max_edits
    /\ \E d \in DestPaths, n \in {ForeignName, TarName} :
          /\ dest[d].exists
          /\ n \notin DOMAIN dest[d].files
          /\ dest' = WriteFile(dest, d, n, CorruptFile)
    /\ edits' = edits + 1
    /\ last' = NoOp
    /\ UNCHANGED <<now, fs, gen, log, mgr>>

----------------------------------------------------------------------------
(* Specifications *)

\* the targets were last written before the clock's origin
InitFs ==
    { [p \in Parents |->
         IF p = "x"
         THEN [exists |-> TRUE,
               children |-> [n \in ChildNames |->
                               IF n = NameT THEN t
                               ELSE IF n = NameM THEN m
                               ELSE IF n = NameD THEN FileNode(0, -1)
                               ELSE NoNode]]
         ELSE [exists |-> FALSE, children |-> [n \in ChildNames |-> NoNode]]] :
        t \in {FileNode(0, -1), FolderNode(<<Entry("f", 0, -1), Entry("g", 0, -1)>>)},
        m \in {FileNode(0, -1), FolderNode(<<Entry("h", 0, -1), SubDir("s", -1)>>)} }

Init ==
    /\ now = 0
    /\ fs \in InitFs
    /\ dest = [d \in DestPaths |-> [exists |-> TRUE, files |-> <<>>, temp |-> FALSE]]
    /\ gen = Idle
    /\ log = <<>>
    /\ last = NoOp
    /\ edits = 0
    /\ mgr = InitManager

\* creation, with time passing and the targets and destinations changing
Next ==
    \/ Tick(MaxClock)
    \/ SetTarget({PathT}, MaxEdits)
    \/ DropForeign(MaxEdits)
    \/ CreateBackupsStart(Presets, MaxCalls)
    \/ CreateBackupsNext(MaxClock)

Spec == Init /\ [][Next]_vars

\* discovery of what creation and the environment left in the destinations
NextDiscover ==
    \/ Tick(DiscoverMaxClock)
    \/ DropForeign(DiscoverMaxEdits)
    \/ CreateBackupsStart({PresetOne}, DiscoverMaxCalls)
    \/ CreateBackupsNext(DiscoverMaxClock)
    \/ GetBackups
    \/ GetBackupsOf
    \/ GetLatestBackup

SpecDiscover == Init /\ [][NextDiscover]_vars

\* restoration of the backups of one target
NextRestore ==
    \/ Tick(RestoreMaxClock)
    \/ SetTarget({PathT}, RestoreMaxEdits)
    \/ CreateBackupsStart({PresetOne}, RestoreMaxCalls)
    \/ CreateBackupsNext(RestoreMaxClock)
    \/ RestoreBackup(RestoreMaxEdits)

SpecRestore == Init /\ [][NextRestore]_vars

\* creation with separators in the stem and in the date format
NextNames ==
    \/ Tick(NamesMaxClock)
    \/ NewDestination
    \/ SetAttribute
    \/ CreateBackupsStart(NamePresets, NamesMaxCalls)
    \/ CreateBackupsNext(NamesMaxClock)

SpecNames == Init /\ [][NextNames]_vars

\* deletion of the backups that creation left
NextDelete ==
    \/ Tick(DeleteMaxClock)
    \/ CreateBackupsStart({PresetOne}, DeleteMaxCalls)
    \/ CreateBackupsNext(DeleteMaxClock)
    \/ DeleteBackup(DeleteMaxEdits)

SpecDelete == Init /\ [][NextDelete]_vars

\* creation with targets that are no files, destinations that vanish and
\* interrupts from the keyboard
NextWrite ==
    \/ Tick(WriteMaxClock)
    \/ SetSpecial({PathT}, WriteMaxEdits)
    \/ RemoveDestination(WriteMaxEdits)
    \/ CreateBackupsStart({PresetOne, PresetGone}, WriteMaxCalls)
    \/ CreateBackupsNext(WriteMaxClock)
    \/ CreateBackupsInterrupted(WriteMaxClock)

SpecWrite == Init /\ [][NextWrite]_vars

\* creation from a directory that is listed in changing orders
NextHash ==
    \/ Tick(HashMaxClock)
    \/ SetTarget({PathT}, HashMaxEdits)
    \/ Reenumerate({PathT}, HashMaxEdits)
    \/ CreateBackupsStart({PresetOne}, HashMaxCalls)
    \/ CreateBackupsNext(HashMaxClock)

SpecHash == Init /\ [][NextHash]_vars

\* the files of a destination loaded one by one
NextLoad ==
    \/ Tick(LoadMaxClock)
    \/ DropForeign(LoadMaxEdits)
    \/ DropOther(LoadMaxEdits)
    \/ CreateBackupsStart({PresetOne}, LoadMaxCalls)
    \/ CreateBackupsNext(LoadMaxClock)
    \/ GetBackupFromFile
    \/ BackupFromFile

SpecLoad == Init /\ [][NextLoad]_vars

\* creation over presets of several pairs, with a missing target and
\* destinations that vanish
NextErrors ==
    \/ Tick(ErrorsMaxClock)
    \/ RemoveDestination(ErrorsMaxEdits)
    \/ CreateBackupsStart({PresetOne, PresetGone}, ErrorsMaxCalls)
    \/ CreateBackupsNext(ErrorsMaxClock)

SpecErrors == Init /\ [][NextErrors]_vars

\* the presets retention is asked about: one with a missing target, one that
\* names its target twice
RetainPresets == {PresetGone, PresetTwice}

\* creation that keeps every archive, then retention by preset
NextRetain ==
    \/ Tick(RetainMaxClock)
    \/ DropForeign(RetainMaxEdits)
    \/ CreateBackupsStart(RetainPresets, RetainMaxCalls)
    \/ CreateBackupsNext(RetainMaxClock)
    \/ GetDeleteCandidates(RetainPresets)
    \/ DeleteOldBackups(RetainPresets)

SpecRetain == Init /\ [][NextRetain]_vars

\* Destinations made and changed by their setters
NextCount ==
    \/ NewDestination
    \/ SetAttribute
    \/ SetMaxBackupCount(CountMaxValue)

SpecCount == Init /\ [][NextCount]_vars

\* presets built by a caller and kept by the PresetManager
NextManage ==
    \/ NewPreset
    \/ AddTarget(ManageMaxItems)
    \/ AddDestination(ManageMaxItems)
    \/ SavePreset
    \/ DeletePreset
    \/ GetPreset
    \/ Reload

SpecManage == Init /\ [][NextManage]_vars

\* creation of one target in two destinations, with the target's bytes
\* changing and coming back
NextDedup ==
    \/ Tick(DedupMaxClock)
    \/ WriteTarget({PathT}, DedupMaxEdits)
    \/ CreateBackupsStart({PresetBoth}, DedupMaxCalls)
    \/ CreateBackupsNext(DedupMaxClock)

SpecDedup == Init /\ [][NextDedup]_vars

\* creation in one destination whose name_separator and date_format differ
\* from call to call
NextSettings ==
    \/ Tick(SettingsMaxClock)
    \/ WriteTarget({PathT}, SettingsMaxEdits)
    \/ CreateBackupsStart(SettingsPresets, SettingsMaxCalls)
    \/ CreateBackupsNext(SettingsMaxClock)

SpecSettings == Init /\ [][NextSettings]_vars

\* restoration beside a file named .yabu.meta, and from archives of
\* another suffix
NextStray ==
    \/ Tick(StrayMaxClock)
    \/ WriteStray(StrayMaxEdits)
    \/ CreateBackupsStart({PresetOne}, StrayMaxCalls)
    \/ CreateBackupsNext(StrayMaxClock)
    \/ RestoreBackup(StrayMaxEdits)
    \/ RestoreCopied(StrayMaxEdits)

SpecStray == Init /\ [][NextStray]_vars

\* restoration through the CommandHandler of the backups of two targets, one
\* of them a target of the preset "one"
NextHandler ==
    \/ Tick(HandlerMaxClock)
    \/ WriteTarget({PathT, PathM}, HandlerMaxEdits)
    \/ CreateBackupsStart({PresetPair}, HandlerMaxCalls)
    \/ CreateBackupsNext(HandlerMaxClock)
    \/ HandlerRestoreBackup(HandlerMaxEdits)

SpecHandler == Init /\ [][NextHandler]_vars

----------------------------------------------------------------------------
(* Properties *)

\* the archives of target that the directory dpath holds
ArchivesOf(D, target, dpath) ==
    { n \in DOMAIN D[dpath].files :
        D[dpath].files[n].meta /\ D[dpath].files[n].target = target }

Min(a, b) == IF a <= b THEN a ELSE b

RECURSIVE OutcomesFrom(_)
\* the outcomes of the calls i.. of the log, in the order they were yielded
OutcomesFrom(i) ==
    IF i > Len(log) THEN <<>> ELSE log[i].outcomes \o OutcomesFrom(i + 1)

\* the outcomes the pair (target, destination) had so far
PairOutcomes(target, destination) ==
    SelectSeq(OutcomesFrom(1),
              LAMBDA o : o.target = target /\ o.destination = destination)

\* the first two calls ran the same preset on targets and destinations that
\* nothing else touched, and the second has just ended
TwoCallsUnchanged ==
    /\ Len(log) = 2
    /\ ~gen.active
    /\ edits = 0
    /\ log[1].preset = log[2].preset

\* C1: when the targets are unchanged between two successive create_backups
\* calls without force, every pair that got a Backup from the first call gets
\* a duplicate-content error from the second, and exactly one archive of the
\* target is in the destination afterwards.
C1_SecondCallIsDuplicate ==
    (TwoCallsUnchanged /\ ~log[1].force /\ ~log[2].force)
    => \A k \in 1..Len(log[1].outcomes) :
          log[1].outcomes[k].kind = "Backup"
          => /\ Len(log[2].outcomes) >= k
             /\ log[2].outcomes[k].kind = "BackupHashException"
             /\ Cardinality(ArchivesOf(dest, log[1].outcomes[k].target,
                                       log[1].outcomes[k].destination.path)) = 1

\* C2: with force, two successive create_backups calls on unchanged targets
\* yield Backup values only and leave exactly two archives for every pair
\* whose destination keeps at least two.
C2_ForceKeepsBoth ==
    (TwoCallsUnchanged /\ log[1].force /\ log[2].force)
    => /\ \A i \in 1..2 :
            /\ log[i].raised = "none"
            /\ \A k \in 1..Len(log[i].outcomes) : log[i].outcomes[k].kind = "Backup"
       /\ \A k \in 1..Len(Pairs(log[1].preset)) :
            LET pair == Pairs(log[1].preset)[k]
            IN pair[2].max_backup_count >= 2
               => Cardinality(ArchivesOf(dest, pair[1], pair[2].path)) = 2

\* C3: from empty destinations, after N creations of a pair that each yielded
\* a Backup, all run with keep = false, the destination holds exactly
\* min(N, retention count) archives of the target, and they are the ones
\* created last.
C3_RetentionKeepsNewest ==
    (/\ ~gen.active
     /\ \A i \in 1..Len(log) : ~log[i].keep /\ log[i].raised = "none")
    => \A target \in TargetPaths, destination \in {Dest1, Dest2} :
          LET made == PairOutcomes(target, destination)
              n == Len(made)
              k == Min(n, destination.max_backup_count)
          IN (\A j \in 1..n : made[j].kind = "Backup")
             => /\ Cardinality(ArchivesOf(dest, target, destination.path)) = k
                /\ ArchivesOf(dest, target, destination.path)
                     = { made[j].backup.path.name : j \in (n - k + 1)..n }

\* C4: every create_backups call yields one outcome per pair, in target-major
\* order, and no error leaves the generator.
C4_OneOutcomePerPair ==
    \A i \in 1..Len(log) :
       /\ log[i].raised = "none"
       /\ Len(log[i].outcomes) = Len(Pairs(log[i].preset))
       /\ \A k \in 1..Len(log[i].outcomes) :
            /\ log[i].outcomes[k].target = Pairs(log[i].preset)[k][1]
            /\ log[i].outcomes[k].destination = Pairs(log[i].preset)[k][2]

\* C5: get_backups on a destination that holds one valid archive and one zip
\* file without metadata returns the valid Backup; the other file does not
\* make the listing fail.
C5_ForeignFileTolerated ==
    (/\ last.op = "get_backups"
     /\ Cardinality(DOMAIN dest[last.source].files) = 2
     /\ \E n \in DOMAIN dest[last.source].files : ~dest[last.source].files[n].meta
     /\ \E n \in DOMAIN dest[last.source].files : dest[last.source].files[n].meta)
    => /\ last.result = "returned"
       /\ Len(last.list) = 1
       /\ last.list[1].path.name \in DOMAIN dest[last.source].files
       /\ dest[last.source].files[last.list[1].path.name].meta

\* C6: a pass of create_backups over the pair (t, d) leaves alone every
\* archive of another target and every archive of another destination.
C6_PairsIndependent ==
    [][gen.active
       => LET t == Pairs(gen.preset)[gen.idx][1]
              d == Pairs(gen.preset)[gen.idx][2]
          IN \A dp \in DestPaths : \A n \in DOMAIN dest[dp].files :
                (dest[dp].files[n].meta /\ (dest[dp].files[n].target # t \/ dp # d.path))
                => /\ n \in DOMAIN dest'[dp].files
                   /\ dest'[dp].files[n] = dest[dp].files[n]]_vars

\* the outcomes of the running call after a step
OutcomesAfter ==
    IF gen.active THEN gen.outcomes
    ELSE IF Len(log) > 0 THEN log[Len(log)].outcomes ELSE <<>>

\* C7: a pass that yields a duplicate-content error removes nothing but the
\* archive it wrote: every file the destinations held before the pass is
\* still there, unchanged.
C7_DuplicateKeepsPrevious ==
    [][(/\ gen.active
        /\ gen' # gen
        /\ Len(OutcomesAfter') = Len(gen.outcomes) + 1
        /\ OutcomesAfter'[Len(OutcomesAfter')].kind = "BackupHashException")
       => \A dp \in DestPaths : \A n \in DOMAIN dest[dp].files :
             /\ n \in DOMAIN dest'[dp].files
             /\ dest'[dp].files[n] = dest[dp].files[n]]_vars

\* C8: after restore_backup(target, backup) returned for the target the backup
\* was made from, hashing the target again gives the backup's content_hash.
C8_RoundTripHash ==
    (/\ last.op = "restore_backup"
     /\ last.result = "none"
     /\ last.target = last.backup.target)
    => md5(ZipEntries(fs, last.target)) = last.backup.content_hash

\* C9: restore_backup onto a target whose parent exists fails with a
\* content-type error and changes nothing when the target is a directory and
\* the backup a file backup, when the target is a file and the backup a
\* directory backup, and when the backup's content type is neither of the two.
C9_TypeConflictRejected ==
    [][(/\ last'.op = "restore_backup"
        /\ fs[last'.target.parent].exists
        /\ \/ fs[last'.target.parent].children[last'.target.name].kind = "folder"
              /\ last'.backup.content_type = "file"
           \/ fs[last'.target.parent].children[last'.target.name].kind = "file"
              /\ last'.backup.content_type = "folder"
           \/ last'.backup.content_type \notin {"file", "folder"})
       => /\ last'.result = "ContentTypeException"
          /\ fs' = fs
          /\ dest' = dest]_vars

\* a file backup was refused on a target that is a directory
C9_Witness ==
    /\ last.op = "restore_backup"
    /\ last.result = "ContentTypeException"
    /\ last.backup.content_type = "file"
    /\ fs[last.target.parent].exists
    /\ fs[last.target.parent].children[last.target.name].kind = "folder"

\* C10: restore_backup onto a target whose parent directory does not exist
\* fails with a not-found error, creates nothing and deletes nothing.
C10_ParentMissingRejected ==
    [][(last'.op = "restore_backup" /\ ~fs[last'.target.parent].exists)
       => /\ last'.result = "FileNotFoundError"
          /\ fs' = fs
          /\ dest' = dest]_vars

\* a restore was refused because the target's parent is missing
C10_Witness ==
    /\ last.op = "restore_backup"
    /\ last.result = "FileNotFoundError"
    /\ ~fs[last.target.parent].exists
    /\ last.backup.content_type \in {"file", "folder"}

\* the names, kinds and bytes of a list of entries
Contents(es) ==
    { [name |-> es[i].name, kind |-> es[i].kind, data |-> es[i].data] : i \in 1..Len(es) }

CurrentTarget == Pairs(gen.preset)[gen.idx][1]
CurrentDestination == Pairs(gen.preset)[gen.idx][2]

\* the step is a pass of create_backups that yielded an outcome of this kind
YieldedKind(kind) ==
    /\ Len(OutcomesAfter') = Len(gen.outcomes) + 1
    /\ OutcomesAfter'[Len(OutcomesAfter')].kind = kind

\* C12: a pass of create_backups over a pair whose target does not exist
\* yields a target-not-found error, a pass over a pair whose target exists and
\* whose destination directory does not yields a destination-not-found error,
\* and neither pass creates or deletes a file of a destination.
C12_MissingYieldsError ==
    [][(gen.active /\ gen' # gen)
       => /\ ~Exists(fs, CurrentTarget)
                => YieldedKind("TargetNotFoundException") /\ dest' = dest
          /\ (Exists(fs, CurrentTarget) /\ ~dest[CurrentDestination.path].exists)
                => YieldedKind("DestinationNotFoundException") /\ dest' = dest]_vars

\* the source of the last call
LastSource == CHOOSE source \in Sources : source.name = last.source

\* the backups that the archives of the source's destinations hold, restricted
\* to the target when one is given
Matching(source, target) ==
    { b \in UNION { { get_backup_from_file(dest, source.destinations[k].path, n).backup :
                        n \in { m \in DOMAIN dest[source.destinations[k].path].files :
                                  dest[source.destinations[k].path].files[m].meta } } :
                      k \in 1..Len(source.destinations) } :
        target = NoPath \/ b.target = target }

\* C13: for a Destination and for a Preset, with and without a target,
\* get_backups returns a list in ascending order of date that holds each
\* backup of the source's destinations (of the target, when one is given) once
\* and nothing else.
C13_ListsEveryBackupOnce ==
    last.op \in {"get_backups", "get_backups_of"}
    => /\ last.result = "returned"
       /\ \A i, j \in 1..Len(last.list) : i < j => last.list[i].date <= last.list[j].date
       /\ \A i, j \in 1..Len(last.list) : i # j => last.list[i].path # last.list[j].path
       /\ {last.list[i] : i \in 1..Len(last.list)} = Matching(LastSource, last.target)

\* C14: get_latest_backup(source, target) returns none when no backup of the
\* source matches, and otherwise a matching backup that no other is later than.
C14_LatestIsMaximum ==
    last.op = "get_latest_backup"
    => /\ last.result = "returned"
       /\ Matching(LastSource, last.target) = {} => last.backup = NoBackup
       /\ Matching(LastSource, last.target) # {}
            => /\ last.backup \in Matching(LastSource, last.target)
               /\ \A b \in Matching(LastSource, last.target) : b.date <= last.backup.date

\* every outcome yielded so far, by the calls that ended and the running one
AllOutcomes == OutcomesFrom(1) \o gen.outcomes

\* b has the fields that the naming rule and the pair (target, destination)
\* give it, and its file name is the rule applied to its name and date
NamedByRule(b, target, destination) ==
    /\ b.name = Stem(target.name)
    /\ b.date_format = destination.date_format
    /\ b.name_separator = destination.name_separator
    /\ b.target = target
    /\ b.content_type = get_content_type(fs, target)
    /\ b.path.name = Stem(target.name) \o <<destination.name_separator>>
                        \o Strftime(b.date, destination.date_format) \o ZipSuffix

Count(str, c) == Cardinality({i \in 1..Len(str) : str[i] = c})

\* C16: no Destination that the constructor or a setter returned has a
\* name_separator that occurs in a timestamp rendered with its date_format,
\* and the name of every archive holds its separator exactly once.
C16_SeparatorOccursOnce ==
    /\ (last.op \in {"Destination", "setter"} /\ last.result = "returned")
         => \A t \in 0..NamesMaxClock :
               Count(Strftime(t, last.destination.date_format),
                     last.destination.name_separator) = 0
    /\ \A d \in DestPaths : \A n \in DOMAIN dest[d].files :
          dest[d].files[n].meta => Count(Stem(n), dest[d].files[n].name_separator) = 1

\* C17: a create_backups call with keep = true, on a preset of one pair,
\* removes no file that a destination held before the call.
C17_KeepDeletesNothing ==
    [][(gen.active /\ gen.keep /\ gen' # gen /\ Len(Pairs(gen.preset)) = 1)
       => \A dp \in DestPaths : DOMAIN dest[dp].files \subseteq DOMAIN dest'[dp].files]_vars

\* C18: delete_backup of a Backup whose archive file is gone raises nothing
\* and changes nothing.
C18_DeleteIsIdempotent ==
    [][(/\ last'.op = "delete_backup"
        /\ last'.backup.path.name \notin DOMAIN dest[last'.backup.path.parent].files)
       => /\ last'.result = "none"
          /\ dest' = dest]_vars

\* C19: once a creation was aborted by a KeyboardInterrupt, no destination
\* holds an archive without its metadata entry or a leftover .yabu.meta file.
C19_AbortLeavesNoPartial ==
    (~gen.active /\ Len(log) > 0 /\ log[Len(log)].raised = "KeyboardInterrupt")
    => \A dp \in DestPaths :
          /\ ~dest[dp].temp
          /\ \A n \in DOMAIN dest[dp].files : dest[dp].files[n].meta

\* C20: a pass of create_backups whose target is neither a file nor a
\* directory, and that reaches the archive writer, ends with ValueError and
\* leaves no new file in a destination.
C20_InvalidTargetWritesNothing ==
    [][(/\ gen.active
        /\ gen' # gen
        /\ Exists(fs, CurrentTarget)
        /\ ~IsDir(fs, CurrentTarget) /\ ~IsFile(fs, CurrentTarget)
        /\ dest[CurrentDestination.path].exists
        /\ DestinationRaises(dest, CurrentDestination) = {})
       => /\ ~gen'.active
          /\ log'[Len(log')].raised = "ValueError"
          /\ \A dp \in DestPaths :
                DOMAIN dest'[dp].files \subseteq DOMAIN dest[dp].files]_vars

\* the files of a tree, whatever the order they are listed in
FilesOf(es) == { es[i] : i \in 1..Len(es) }

\* the archives of directories that the destinations hold
FolderArchives ==
    { f \in UNION { { dest[d].files[n] : n \in DOMAIN dest[d].files } : d \in DestPaths } :
        f.meta /\ f.content_type = "folder" }

\* C21: the content hash of a directory is the same for every order in which
\* its entries are enumerated, and differs whenever the bytes or the relative
\* path of a file differ
C21_HashIgnoresOrder ==
    \A a, b \in FolderArchives :
        /\ FilesOf(a.entries) = FilesOf(b.entries) => a.content_hash = b.content_hash
        /\ Contents(a.entries) # Contents(b.entries) => a.content_hash # b.content_hash

\* the outcome class of the file at path: no container or another extension,
\* a container without the metadata entry, or a backup
Classified(path) ==
    LET file == dest[path.parent].files[path.name]
    IN  IF Suffix(path.name) # ZipSuffix \/ ~file.container THEN "FormatException"
        ELSE IF ~file.meta THEN "NotABackupException"
        ELSE "returned"

\* C22: BackupManager.get_backup_from_file and Backup.from_file give the same
\* classified outcome for a file: a not-a-backup error without the metadata
\* entry, an unsupported-format error for what is no container or has another
\* extension, a Backup otherwise, and never no value
C22_LoadersAgree ==
    last.op \in {"get_backup_from_file", "from_file"} =>
        /\ last.result = Classified(last.target)
        /\ last.result = "returned" => last.backup # NoBackup

ErrorKinds ==
    {"TargetNotFoundException", "DestinationNotFoundException", "FormatException",
     "BackupHashException"}

\* the backups of target that the directory dpath of D holds
BackupsOf(D, target, dpath) ==
    { get_backup_from_file(D, dpath, n).backup : n \in ArchivesOf(D, target, dpath) }

\* the backups of target in dpath that no other one of them is newer than
LatestOf(D, target, dpath) ==
    { b \in BackupsOf(D, target, dpath) :
        \A c \in BackupsOf(D, target, dpath) : c.date <= b.date }

\* C23: an error that a pass of create_backups yields carries the target and
\* the destination of the pair of that pass, and a duplicate-content error
\* carries the path of the backup that was the latest of that pair before
\* the pass.
C23_ErrorsNameTheirPair ==
    [][\A kind \in ErrorKinds :
          (gen.active /\ YieldedKind(kind))
          => LET o == OutcomesAfter'[Len(OutcomesAfter')]
             IN /\ o.target = CurrentTarget
                /\ o.destination = CurrentDestination
                /\ kind = "BackupHashException"
                      => \E b \in LatestOf(dest, CurrentTarget, CurrentDestination.path) :
                            o.msg = b.path]_vars

\* a call over two pairs has yielded a target-not-found error for the first
\* and a duplicate-content error for the second
C23_Witness ==
    \E i \in 1..Len(log) :
        /\ Len(log[i].outcomes) = 2
        /\ log[i].outcomes[1].kind = "TargetNotFoundException"
        /\ log[i].outcomes[1].target = PathY
        /\ log[i].outcomes[2].kind = "BackupHashException"
        /\ log[i].outcomes[2].target = PathT
        /\ log[i].outcomes[2].msg.parent = "d2"

\* the backups of a pair beyond the retention count of its destination: those
\* that at least max_backup_count backups of the pair are newer than
Surplus(D, target, destination) ==
    { b \in BackupsOf(D, target, destination.path) :
        Cardinality({ c \in BackupsOf(D, target, destination.path) : c.date > b.date })
            >= destination.max_backup_count }

\* the surplus of every pair of the preset of the last call
SurplusOfLast(D, name) ==
    LET preset == CHOOSE p \in RetainPresets : p.name = name
    IN UNION { Surplus(D, Pairs(preset)[k][1], Pairs(preset)[k][2]) :
                 k \in 1..Len(Pairs(preset)) }

\* C24: get_delete_candidates(preset) deletes nothing and returns, for each
\* pair, the oldest backups beyond the retention count; delete_old_backups
\* (preset) removes those files and no others, and leaves no candidate.
C24_RetentionByPreset ==
    [][/\ last'.op = "get_delete_candidates"
            => /\ last'.result = "returned"
               /\ dest' = dest
               /\ { last'.list[i] : i \in 1..Len(last'.list) }
                    = SurplusOfLast(dest, last'.source)
       /\ last'.op = "delete_old_backups"
            => /\ last'.result = "returned"
               /\ \A d \in DestPaths :
                     DOMAIN dest'[d].files
                       = (DOMAIN dest[d].files)
                           \ { b.path.name :
                                 b \in { c \in SurplusOfLast(dest, last'.source) :
                                           c.path.parent = d } }
               /\ SurplusOfLast(dest', last'.source) = {}]_vars

\* C25: create_backups on a preset that names a target twice leaves the
\* archives that the preset with the target named once leaves: on an empty
\* destination, the one archive of the first pass.
C25_DuplicateTargetMeaningless ==
    (/\ ~gen.active
     /\ Len(log) = 1
     /\ edits = 0
     /\ last.op = "none"
     /\ log[1].preset = PresetTwice
     /\ log[1].raised = "none")
    => /\ log[1].outcomes[1].kind = "Backup"
       /\ ArchivesOf(dest, PathT, "d1") = {log[1].outcomes[1].backup.path.name}

\* C26: the Destination a caller holds has a max_backup_count that is an
\* integer of at least 1 after every constructor and setter call; an
\* assignment of another value raises and leaves the Destination as it was.
C26_CountStaysPositive ==
    [][/\ last'.destination # NoDestination => last'.destination.max_backup_count >= 1
       /\ last'.value # NoValue
            => IF IsInt(last'.value) /\ last'.value.num >= 1
               THEN /\ last'.result = "returned"
                    /\ last'.destination
                         = [last.destination EXCEPT !.max_backup_count = last'.value.num]
               ELSE /\ last'.result \in {"TypeError", "ValueError"}
                    /\ last'.destination = last.destination]_vars

\* the assignment of 0 to the max_backup_count of a Destination that had
\* been given the count 2 was rejected
C26_Witness ==
    /\ last.op = "setter"
    /\ last.value = IntValue(0)
    /\ last.result = "ValueError"
    /\ last.destination.max_backup_count = 2

\* C27: after save_preset(p), get_preset(p.name) returns a preset equal to p,
\* every other stored preset is as it was, and the config file that was
\* written reloads to the presets the manager holds.
C27_SaveThenLoad ==
    [][last'.op = "save_preset"
       => LET p == last'.preset
          IN /\ get_preset(mgr', p.name) = Built("none", p)
             /\ DOMAIN mgr'.presets = (DOMAIN mgr.presets) \cup {p.name}
             /\ \A n \in (DOMAIN mgr.presets) \ {p.name} :
                   mgr'.presets[n] = mgr.presets[n]
             /\ \A r \in PresetManager(dest, mgr') :
                   r.raised = "none" /\ r.mgr.presets = mgr'.presets]_vars

\* C28: delete_preset removes the named preset and no other, from the
\* manager and from the config file; get_preset and delete_preset with a name
\* that is not stored raise PresetNotFoundException and change neither.
C28_DeleteRemovesOne ==
    [][/\ last'.op = "delete_preset"
            => IF last'.source \in DOMAIN mgr.presets
               THEN /\ last'.result = "returned"
                    /\ DOMAIN mgr'.presets = (DOMAIN mgr.presets) \ {last'.source}
                    /\ DOMAIN mgr'.file.presets = (DOMAIN mgr.file.presets) \ {last'.source}
                    /\ \A n \in DOMAIN mgr'.presets :
                          /\ mgr'.presets[n] = mgr.presets[n]
                          /\ mgr'.file.presets[n] = mgr.file.presets[n]
               ELSE /\ last'.result = "PresetNotFoundException"
                    /\ mgr' = mgr
       /\ last'.op = "get_preset"
            => /\ mgr' = mgr
               /\ IF last'.source \in DOMAIN mgr.presets
                  THEN last'.result = "returned" /\ last'.preset = mgr.presets[last'.source]
                  ELSE last'.result = "PresetNotFoundException"]_vars

\* delete_preset of a name that is not stored was rejected, and the manager
\* still holds a preset that was saved under another name
C28_Witness ==
    /\ last.op = "delete_preset"
    /\ last.source = "one"
    /\ last.result = "PresetNotFoundException"
    /\ DOMAIN mgr.presets = {"books"}
    /\ DOMAIN mgr.file.presets = {"books"}

\* C29: add_target appends a value that is a path and add_destination one
\* that is a Destination; for any other value they raise TypeError and
\* leave the lists of the preset as they were.
C29_AddChecksType ==
    [][/\ last'.op = "add_target"
            => IF last'.value.type = "Path"
               THEN /\ last'.result = "returned"
                    /\ mgr'.draft = [mgr.draft EXCEPT !.targets = Append(@, last'.value.path)]
               ELSE /\ last'.result = "TypeError"
                    /\ mgr'.draft = mgr.draft
       /\ last'.op = "add_destination"
            => IF last'.value.type = "Destination"
               THEN /\ last'.result = "returned"
                    /\ mgr'.draft = [mgr.draft EXCEPT
                                        !.destinations = Append(@, last'.value.destination)]
               ELSE /\ last'.result = "TypeError"
                    /\ mgr'.draft = mgr.draft]_vars

\* add_target rejected a Destination on a preset that holds a target and a
\* destination
C29_Witness ==
    /\ last.op = "add_target"
    /\ last.value = DestinationValue(Dest1)
    /\ last.result = "TypeError"
    /\ mgr.draft.targets = <<PathT>>
    /\ mgr.draft.destinations = <<Dest1>>

\* the outcome the step yielded
Yielded == OutcomesAfter'[Len(OutcomesAfter')]

C31_LazyAndFinite ==
    [][/\ (~gen.active /\ gen'.active) => (dest' = dest /\ fs' = fs)
       /\ (gen.active /\ gen' = gen) => (dest' = dest /\ fs' = fs)
       /\ (gen.active /\ gen' # gen)
            => /\ \A d \in DestPaths \ {CurrentDestination.path} : dest'[d] = dest[d]
               /\ fs' = fs
               /\ Len(OutcomesAfter') = gen.idx
               /\ gen'.active <=> gen.idx < Len(Pairs(gen.preset))]_vars

\* the Backups yielded so far whose archive is still in its place, with the
\* name and the date they had when they were created
Previous ==
    { AllOutcomes[i].backup :
        i \in { k \in 1..Len(AllOutcomes) :
                  LET b == AllOutcomes[k].backup
                  IN /\ AllOutcomes[k].kind = "Backup"
                     /\ b.path.name \in DOMAIN dest[b.path.parent].files
                     /\ dest[b.path.parent].files[b.path.name].content_hash
                          = b.content_hash } }

\* C32: whatever name_separator and date_format the destination has now, a
\* pass of create_backups finds the archives created under other settings
\* with the name and the date they were created with: listing raises
\* nothing, dedup compares with the latest of them by date, and retention
\* counts them and removes the oldest of them by date.
C32_OwnMetadataInterprets ==
    [][(gen.active /\ gen' # gen /\ Exists(fs, CurrentTarget))
       => LET new_hash == md5(ZipEntries(fs, CurrentTarget))
              latest == { b \in Previous : \A c \in Previous : c.date <= b.date }
              after == ArchivesOf(dest', CurrentTarget, CurrentDestination.path)
          IN /\ YieldedKind("Backup") \/ YieldedKind("BackupHashException")
             /\ YieldedKind("BackupHashException")
                  => /\ ~gen.force
                     /\ \E b \in latest : /\ b.content_hash = new_hash
                                           /\ Yielded.msg = b.path
             /\ (/\ ~gen.force /\ latest # {}
                 /\ \A b \in latest : b.content_hash = new_hash)
                  => YieldedKind("BackupHashException")
             /\ (YieldedKind("Backup") /\ ~gen.keep)
                  => /\ Cardinality(after) <= CurrentDestination.max_backup_count
                     /\ \A b \in Previous :
                          b.path.name \notin after
                          => \A c \in Previous \cup {Yielded.backup} :
                                c.path.name \in after => b.date <= c.date]_vars

\* an archive made with the sub-second date format was followed by a forced
\* call under the second format that did not keep: retention counted the first archive and removed it
C32_Witness ==
    /\ Len(log) = 2
    /\ log[1].preset.destinations[1] = Dest2
    /\ log[1].outcomes[1].kind = "Backup"
    /\ log[2].preset.destinations[1].name_separator = "_"
    /\ log[2].preset.destinations[1].date_format = FmtSec
    /\ ~log[2].keep
    /\ log[2].outcomes[1].kind = "Backup"
    /\ log[1].outcomes[1].backup.date < log[2].outcomes[1].backup.date
    /\ ArchivesOf(dest, PathT, "d2") = {log[2].outcomes[1].backup.path.name}

\* C37: every Backup that create_backups yields describes an archive that is
\* in its destination when it is yielded: the retention that runs just before
\* the yield does not delete the archive the pass has created.
C37_YieldedArchiveExists ==
    [][(gen.active /\ YieldedKind("Backup"))
       => Yielded.backup.path.name
            \in DOMAIN dest'[Yielded.backup.path.parent].files]_vars

RestoredType(content_type) ==
    /\ edits' = edits + 1
    /\ last'.op = "restore_backup"
    /\ last'.result = "none"
    /\ last'.backup.content_type = content_type

\* C34: after restore_backup(target, backup) of a file backup returned, a
\* regular file with the backed-up bytes is at the path target, and no other
\* entry of the target's parent directory was created, replaced or removed;
\* also when the file name of target is not that of the backup's own target.
C34_FileRestoredAtTarget ==
    [][RestoredType("file")
       => LET target == last'.target
              captured == dest[last'.backup.path.parent].files[last'.backup.path.name].entries
          IN /\ IsFile(fs', target)
             /\ NodeAt(fs', target).data = captured[1].data
             /\ \A p \in Parents, n \in ChildNames :
                   [parent |-> p, name |-> n] # target
                   => NodeAt(fs', [parent |-> p, name |-> n])
                        = NodeAt(fs, [parent |-> p, name |-> n])]_vars

\* C33: restore_backup neither leaves nor removes a .yabu.meta outside the
\* archive: after it returned for a folder backup the target directory holds
\* no entry of that name, and after it returned for a file backup what the
\* target's parent directory held under that name is still there, unchanged.
C33_MetadataStaysInside ==
    [][(RestoredType("folder") \/ RestoredType("file"))
       => LET target == last'.target
              metafile == [parent |-> target.parent, name |-> MetaName]
          IN /\ RestoredType("folder")
                  => \A i \in 1..Len(NodeAt(fs', target).entries) :
                        NodeAt(fs', target).entries[i].name # MetaName
             /\ RestoredType("file")
                  => NodeAt(fs', metafile) = NodeAt(fs, metafile)]_vars

\* C35: a restore_backup call that raises, whichever the error, leaves the
\* target as it was before the call.
C35_FailedRestoreKeepsTarget ==
    [][(/\ edits' = edits + 1
        /\ last'.op = "restore_backup"
        /\ last'.result # "none")
       => NodeAt(fs', last'.target) = NodeAt(fs, last'.target)]_vars

\* the targets of the preset that the config file holds under this name
TargetsOf(name) ==
    { mgr.presets[name].targets[i] : i \in 1..Len(mgr.presets[name].targets) }

\* the step is a BackupManager.restore_backup(target, backup) call: the files
\* are left as one of its outcomes leaves them and its error, if any, is raised
RestoresTo(target, backup) ==
    \E r \in restore_backup(fs, dest, target, backup, now) :
       fs' = r.fs /\ last'.result = r.raised

\* C38: CommandHandler.restore_backup with the name of a preset restores the
\* backup to backup.target when that is one of the preset's targets, and
\* otherwise raises TargetMatchException and changes no file or directory;
\* with a path it restores to that path, whatever the backup's target is.
C38_HandlerChecksPreset ==
    [][(edits' = edits + 1 /\ last'.op = "CommandHandler.restore_backup")
       => /\ dest' = dest
          /\ (last'.form = "str" /\ last'.source \in DOMAIN mgr.presets)
               => IF last'.backup.target \in TargetsOf(last'.source)
                  THEN RestoresTo(last'.backup.target, last'.backup)
                  ELSE last'.result = "TargetMatchException" /\ fs' = fs
          /\ last'.form = "Path" => RestoresTo(last'.target, last'.backup)]_vars

\* the backup of /x/a.m, which is no target of the preset "one", was handed
\* to the handler with that preset's name after /x/a.m had changed
C38_Witness ==
    /\ last.op = "CommandHandler.restore_backup"
    /\ last.form = "str"
    /\ last.source = "one"
    /\ last.backup.target = PathM
    /\ last.result = "TargetMatchException"
    /\ md5(ZipEntries(fs, PathM)) # last.backup.content_hash

====
